---- MODULE Spec2Model ----
(***************************************************************************)
(* Model of ledger/src/shredder.rs: the legacy data shredder, the coding   *)
(* shredder, the recovery engine, the reassembler, the batch planner and   *)
(* the batch sizer.                                                        *)
(*                                                                         *)
(* Several specifications share the variables below.  Each one starts     *)
(* from the inputs of one entry point and applies the operations of the    *)
(* source to them:                                                         *)
(*   SpecPlanner   get_fec_set_offsets                                     *)
(*   SpecSizer     get_erasure_batch_size                                  *)
(*   Spec          entries_to_data_shreds followed by deshred              *)
(*   SpecCoding    entries_to_data_shreds followed by                      *)
(*                 data_shreds_to_coding_shreds on a prefix                *)
(*   SpecRecovery  entries_to_shreds followed by try_recovery on the       *)
(*                 shreds that survive a loss                              *)
(*   SpecStray     the same, with a shred of an index outside the set      *)
(*   SpecRepeat    the same, with a survivor in the input twice            *)
(*   SpecScenario  tests::run_test_recovery_and_reassembly                 *)
(*   SpecDeshred   deshred on any short sequence of data shreds            *)
(*   SpecNew       Shredder::new                                           *)
(*   SpecParallel  the two parallel iterators on the thread pool           *)
(*   SpecCache     ReedSolomonCache::get called by several threads         *)
(*   SpecCacheFair SpecCache under a fair scheduler                        *)
(*   SpecCapacity  ReedSolomonCache::get on a full cache                   *)
(*   SpecEarly     try_recovery on sets with nothing to recover            *)
(***************************************************************************)
EXTENDS Integers, Sequences, FiniteSets, TLC

VARIABLES
    pc,             \* position of the caller: which operation comes next
    args,           \* the arguments of the entry point under study
    shredder,       \* the Shredder context {slot, parent_slot, version, reference_tick}
    data_shreds,    \* Vec<Shred> returned by entries_to_data_shreds
    coding_shreds,  \* Vec<Shred> returned by data_shreds_to_coding_shreds
    shreds,         \* the shreds handed to the coding shredder, try_recovery or deshred
    ret,            \* the value returned by the last operation
    cache,          \* ReedSolomonCache: the entries of the LruCache, least recently used first
    lock,           \* the RwLock around the LruCache: its readers and its writer
    cells,          \* the OnceLock cells allocated so far, by address
    threads,        \* the threads calling ReedSolomonCache::get: position and locals
    observed,       \* history: the (key, result) pairs the calls of get have returned
    pool            \* PAR_THREAD_POOL: the pieces of the parallel iterator it runs

vars == <<pc, args, shredder, data_shreds, coding_shreds, shreds, ret, cache, lock, cells, threads, observed, pool>>

\* The state of the ReedSolomonCache and of its callers.
cache_vars == <<cache, lock, cells, threads, observed>>

(***************************************************************************)
(* Bounds of the model.                                                    *)
(***************************************************************************)
\* largest num_shreds handed to the planner
MaxNumShreds == 130
\* largest min_chunk_size handed to the planner
MaxMinChunkSize == 33
\* largest number of chunks the planner is asked for
MaxPlannerChunks == 24
\* largest num_data_shreds handed to the batch sizer
MaxNumData == 130
\* largest number of bytes of bincode::serialize(entries)
MaxPayloadLen == 200
\* the serialized entries are drawn from the byte patterns 0..MaxSeed
MaxSeed == 1
\* largest slot of a shredder context
MaxSlot == 7
\* largest number of data shreds handed to the coding shredder
MaxCodingChunks == 65
\* largest number of data shreds of a FEC set handed to the recovery
MaxRecoveryChunks == 3
\* code shreds at each end of a FEC set that may be lost or kept one by one
MaxParityWindow == 1
\* number of threads that call ReedSolomonCache::get
MaxThreads == 2
\* largest number of calls of ReedSolomonCache::get by one thread
MaxCalls == 2
\* largest number of calls of get, by all threads, on a full cache
MaxFullCalls == 2
\* largest number of pieces the pool splits a parallel iterator into
MaxPieces == 3
\* largest number of data shreds of a call run on the pool
MaxParChunks == 96
\* largest number of data shreds the inputs of deshred are drawn from
MaxDeshredChunks == 5
\* largest number of shreds handed to deshred out of order
MaxDeshredLen == 4
\* Shredder::new is handed slots within MaxNewSlot of 0 and of u16::MAX
MaxNewSlot == 3
\* largest step of the patterns by which the shreds of a set are dropped
MaxDropStep == 3
\* the step of the prefix sizes of tests::test_max_coding_shreds
PrefixStep == 5
\* num_data_shreds of tests::run_test_recovery_and_reassembly
TestNumDataShreds == 5

(***************************************************************************)
(* Program constants.                                                      *)
(***************************************************************************)
\* shred::DATA_SHREDS_PER_FEC_BLOCK
DATA_SHREDS_PER_FEC_BLOCK == 32

\* Rust arrays are indexed from 0, TLA+ sequences from 1: entry i of the
\* array is element i + 1 of this sequence.
ERASURE_BATCH_SIZE ==
    << 0, 18, 20, 22, 23, 25, 27, 28, 30,
       32, 33, 35, 36, 38, 39, 41, 42,
       43, 45, 46, 48, 49, 51, 52, 53,
       55, 56, 58, 59, 60, 62, 63, 64 >>

(***************************************************************************)
(* Arithmetic of the standard library.                                     *)
(***************************************************************************)
Max(a, b) == IF a >= b THEN a ELSE b

\* usize::div_ceil
DivCeil(a, b) == (a + b - 1) \div b

\* std::iter::repeat_n(x, n)
\* Iterator::collect into a Vec: the sequence with its elements computed.
collect(iter) == SubSeq(iter, 1, Len(iter))

RepeatN(x, n) == [i \in 1..n |-> x]

\* A u32 value.  TLC's integers end at 2^31 - 1, below u32::MAX: the shred
\* indices of the model are bounded far below that, so that no u32 sum of
\* the model wraps or overflows.
U32(x) == x

\* blockstore::MAX_DATA_SHREDS_PER_SLOT and shred::MAX_CODE_SHREDS_PER_SLOT,
\* the largest numbers of data shreds and of code shreds of a slot.
MAX_DATA_SHREDS_PER_SLOT == 32768

MAX_CODE_SHREDS_PER_SLOT == MAX_DATA_SHREDS_PER_SLOT

(***************************************************************************)
(* Batch sizer.                                                            *)
(***************************************************************************)
\* The lookup with unwrap_or(num_data_shreds): no parity past the table.
table_lookup_unpadded(num_data_shreds) ==
    IF num_data_shreds < Len(ERASURE_BATCH_SIZE)
    THEN ERASURE_BATCH_SIZE[num_data_shreds + 1]
    ELSE num_data_shreds

\* The lookup with unwrap_or(2 * num_data_shreds + 1): one code shred more
\* than data shreds past the table.
table_lookup_overpadded(num_data_shreds) ==
    IF num_data_shreds < Len(ERASURE_BATCH_SIZE)
    THEN ERASURE_BATCH_SIZE[num_data_shreds + 1]
    ELSE 2 * num_data_shreds + 1

\* ERASURE_BATCH_SIZE.get(num_data_shreds).copied().unwrap_or(2 * num_data_shreds)
table_lookup(num_data_shreds) ==
    IF num_data_shreds < Len(ERASURE_BATCH_SIZE)
    THEN ERASURE_BATCH_SIZE[num_data_shreds + 1]
    ELSE 2 * num_data_shreds

get_erasure_batch_size_no_floor(num_data_shreds, is_last_in_slot) ==
    table_lookup(num_data_shreds)

get_erasure_batch_size(num_data_shreds, is_last_in_slot) ==
    LET erasure_batch_size == table_lookup(num_data_shreds)
    IN  IF is_last_in_slot
        THEN Max(erasure_batch_size, 2 * DATA_SHREDS_PER_FEC_BLOCK)
        ELSE erasure_batch_size

(***************************************************************************)
(* Batch planner.                                                          *)
(***************************************************************************)
num_chunks_rounded_up(num_shreds, min_chunk_size) ==
    Max(DivCeil(num_shreds, min_chunk_size), 1)

\* let num_chunks = (num_shreds / min_chunk_size).max(1);
num_chunks_of(num_shreds, min_chunk_size) ==
    Max(num_shreds \div min_chunk_size, 1)

\* let chunk_size = num_shreds.div_ceil(num_chunks);
chunk_size_of(num_shreds, num_chunks) == DivCeil(num_shreds, num_chunks)

next_offset_by_one(offset, chunk_size) == offset + 1

\* offset += chunk_size;
next_offset(offset, chunk_size) == offset + chunk_size

\* The iterator built by from_fn and flatten, run to its end: the closure's
\* state is (num_shreds, offset), and each call yields chunk_size copies of
\* offset.
RECURSIVE fec_set_offsets_from(_, _, _)
fec_set_offsets_from(num_shreds, offset, min_chunk_size) ==
    IF num_shreds = 0
    THEN << >>
    ELSE LET num_chunks == num_chunks_of(num_shreds, min_chunk_size)
             chunk_size == chunk_size_of(num_shreds, num_chunks)
         IN  RepeatN(offset, chunk_size)
               \o fec_set_offsets_from(num_shreds - chunk_size,
                                       next_offset(offset, chunk_size),
                                       min_chunk_size)

get_fec_set_offsets(num_shreds, min_chunk_size) ==
    fec_set_offsets_from(num_shreds, 0, min_chunk_size)

(***************************************************************************)
(* itertools group_by over a sequence of keys: the maximal runs of equal   *)
(* consecutive keys, as <<key, first position, size>>.                     *)
(***************************************************************************)
RECURSIVE group_by_from(_, _)
group_by_from(keys, first) ==
    IF first > Len(keys)
    THEN << >>
    ELSE LET beyond == {j \in (first + 1)..(Len(keys) + 1) :
                           j = Len(keys) + 1 \/ keys[j] # keys[first]}
             stop   == CHOOSE j \in beyond : \A k \in beyond : j <= k
         IN  << [key |-> keys[first], first |-> first, size |-> stop - first] >>
               \o group_by_from(keys, stop)

group_by(keys) == group_by_from(keys, 1)

(***************************************************************************)
(* The shred codec (crate::shred), as far as the shredder uses it.  A      *)
(* shred is a record of its header fields and its body.                    *)
(***************************************************************************)
\* ShredFlags::SHRED_TICK_REFERENCE_MASK = 0b0011_1111
SHRED_TICK_REFERENCE_MASK == 63
\* ShredFlags::DATA_COMPLETE_SHRED = 0b0100_0000
DATA_COMPLETE_SHRED == 64
\* ShredFlags::LAST_SHRED_IN_SLOT = 0b1100_0000
LAST_SHRED_IN_SLOT == 192
\* ShredFlags::empty()
ShredFlagsEmpty == 0

\* Bit i (0 = least significant) of the byte b.
Bit(b, i) == (b \div (2^i)) % 2

\* ShredFlags::contains: every bit of flag is set in flags.
FlagsContains(flags, flag) ==
    \A i \in 0..7 : Bit(flag, i) = 1 => Bit(flags, i) = 1

\* flags | other, on bytes.
FlagsUnion(flags, other) ==
    LET bit(i) == IF Bit(flags, i) = 1 \/ Bit(other, i) = 1 THEN 2^i ELSE 0
    IN  bit(0) + bit(1) + bit(2) + bit(3) + bit(4) + bit(5) + bit(6) + bit(7)

Min(a, b) == IF a <= b THEN a ELSE b

\* Shred::new_from_data: the reference tick is clamped to six bits and
\* stored in the flags byte; the data region holds the chunk, and size
\* counts its bytes.
Shred_new_from_data(slot, index, parent_offset, data, flags, reference_tick, version, fec_set_index) ==
    [ kind          |-> "data",
      signature     |-> 0,
      slot          |-> slot,
      index         |-> index,
      version       |-> version,
      fec_set_index |-> fec_set_index,
      parent_offset |-> parent_offset,
      flags         |-> FlagsUnion(flags, Min(reference_tick, SHRED_TICK_REFERENCE_MASK)),
      data          |-> data ]

\* Shred::sign: the signature of the keypair over the shred.
Shred_sign(shred, keypair) == [shred EXCEPT !.signature = keypair]

\* Shred::is_data, Shred::is_code
Shred_is_data(shred) == shred.kind = "data"
Shred_is_code(shred) == shred.kind = "code"

\* Shred::last_in_slot: false for a code shred.
Shred_last_in_slot(shred) ==
    /\ Shred_is_data(shred)
    /\ FlagsContains(shred.flags, LAST_SHRED_IN_SLOT)

\* Shred::data_complete
Shred_data_complete(shred) ==
    /\ Shred_is_data(shred)
    /\ FlagsContains(shred.flags, DATA_COMPLETE_SHRED)

\* shred::layout::get_index, get_data, get_flags on a data shred's payload
layout_get_index(shred) == shred.index
layout_get_data(shred) == shred.data
layout_get_flags(shred) == shred.flags

(***************************************************************************)
(* Shredder::new                                                           *)
(***************************************************************************)
U16_MAX == 65535

\* Shredder::new with the bound on the parent offset off by one.
Shredder_new_accepting_two_pow_16(slot, parent_slot, reference_tick, version) ==
    IF slot < parent_slot \/ slot - parent_slot > U16_MAX + 1
    THEN [ok |-> FALSE, err |-> "InvalidParentSlot"]
    ELSE [ok |-> TRUE,
          value |-> [ slot           |-> slot,
                      parent_slot    |-> parent_slot,
                      reference_tick |-> reference_tick,
                      version        |-> version ]]

Shredder_new(slot, parent_slot, reference_tick, version) ==
    IF slot < parent_slot \/ slot - parent_slot > U16_MAX
    THEN [ok |-> FALSE, err |-> "InvalidParentSlot"]
    ELSE [ok |-> TRUE,
          value |-> [ slot           |-> slot,
                      parent_slot    |-> parent_slot,
                      reference_tick |-> reference_tick,
                      version        |-> version ]]

(***************************************************************************)
(* Shredder::entries_to_data_shreds                                        *)
(***************************************************************************)
\* Bound: ShredData::capacity(None), the bytes of payload one data shred
\* holds, scaled down.
DataBufferSize == 2

\* slice::chunks_exact: the trailing partial chunk is left out.
chunks_exact(bytes, size) ==
    [i \in 1..(Len(bytes) \div size) |->
        SubSeq(bytes, (i - 1) * size + 1, i * size)]

\* slice::chunks(size): consecutive chunks of size bytes, the last one
\* possibly shorter.
chunks(bytes, size) ==
    [i \in 1..DivCeil(Len(bytes), size) |->
        SubSeq(bytes, (i - 1) * size + 1, Min(i * size, Len(bytes)))]

shred_index_at_next(next_shred_index, i) == U32(next_shred_index + i + 1)

\* let shred_index = next_shred_index + i as u32;
shred_index_at(next_shred_index, i) == U32(next_shred_index + i)

fec_set_index_at_offset_only(next_shred_index, offset) == U32(offset)

\* let fec_set_index = next_shred_index + offset as u32;
fec_set_index_at(next_shred_index, offset) == U32(next_shred_index + offset)

shred_flags_ignoring_slot_end(shred_index, last_shred_index, is_last_in_slot) ==
    IF shred_index # last_shred_index
    THEN ShredFlagsEmpty
    ELSE DATA_COMPLETE_SHRED

\* The flags chosen by the make_data_shred closure.
shred_flags(shred_index, last_shred_index, is_last_in_slot) ==
    IF shred_index # last_shred_index
    THEN ShredFlagsEmpty
    ELSE IF is_last_in_slot
         THEN LAST_SHRED_IN_SLOT
         ELSE DATA_COMPLETE_SHRED

\* The make_data_shred closure: parent_offset is truncated to u16.
make_data_shred(self, keypair, is_last_in_slot, last_shred_index, data, shred_index, fec_set_index) ==
    LET flags == shred_flags(shred_index, last_shred_index, is_last_in_slot)
        parent_offset == self.slot - self.parent_slot
    IN  Shred_sign(
            Shred_new_from_data(self.slot, shred_index, parent_offset % (2^16),
                                data, flags, self.reference_tick, self.version,
                                fec_set_index),
            keypair)

\* serialized_shreds is bincode::serialize(entries).  The parallel map is
\* indexed: collect() returns the shreds in the order of the chunks.
entries_to_data_shreds(self, keypair, serialized_shreds, is_last_in_slot, next_shred_index) ==
    LET data_buffer_size == DataBufferSize
        num_shreds       == DivCeil(Len(serialized_shreds), data_buffer_size)
        last_shred_index == U32(next_shred_index + num_shreds - 1)
        shreds_          == chunks(serialized_shreds, data_buffer_size)
        fec_set_offsets  == get_fec_set_offsets(Len(shreds_), DATA_SHREDS_PER_FEC_BLOCK)
    IN  [n \in 1..Len(shreds_) |->
            make_data_shred(self, keypair, is_last_in_slot, last_shred_index,
                            shreds_[n],
                            shred_index_at(next_shred_index, n - 1),
                            fec_set_index_at(next_shred_index, fec_set_offsets[n]))]

(***************************************************************************)
(* Shredder::deshred                                                       *)
(***************************************************************************)
None == [some |-> FALSE]
Some(x) == [some |-> TRUE, value |-> x]

Ok(x) == [ok |-> TRUE, value |-> x]
Err(e) == [ok |-> FALSE, err |-> e]

\* prev.checked_add(1): None only at u32::MAX, which no index of the model
\* reaches.
checked_add_1(prev) == Some(U32(prev + 1))

\* The closure of try_fold without the test of data_complete.
deshred_step_accepting_trailing(acc, shred) ==
    LET index == Some(layout_get_index(shred))
    IN  IF acc.prev.some /\ checked_add_1(acc.prev.value) # index
        THEN Err("TooFewDataShards")
        ELSE Ok([ data          |-> acc.data \o layout_get_data(shred),
                  prev          |-> index,
                  data_complete |-> FlagsContains(layout_get_flags(shred),
                                                  DATA_COMPLETE_SHRED) ])

\* The closure of try_fold without the test of the indices.
deshred_step_ignoring_index(acc, shred) ==
    IF acc.data_complete
    THEN Err("InvalidDeshredSet")
    ELSE Ok([ data          |-> acc.data \o layout_get_data(shred),
              prev          |-> Some(layout_get_index(shred)),
              data_complete |-> FlagsContains(layout_get_flags(shred),
                                              DATA_COMPLETE_SHRED) ])

\* The closure of try_fold: one shred folded into (data, prev, data_complete).
deshred_step(acc, shred) ==
    IF acc.data_complete
    THEN Err("InvalidDeshredSet")
    ELSE LET index == Some(layout_get_index(shred))
         IN  IF acc.prev.some /\ checked_add_1(acc.prev.value) # index
             THEN Err("TooFewDataShards")
             ELSE Ok([ data          |-> acc.data \o layout_get_data(shred),
                       prev          |-> index,
                       data_complete |-> FlagsContains(layout_get_flags(shred),
                                                       DATA_COMPLETE_SHRED) ])

\* Iterator::try_fold over the elements lo..hi in order, the first half
\* and then the second: stops at the first error.
RECURSIVE deshred_try_fold(_, _, _, _)
deshred_try_fold(acc, input, lo, hi) ==
    IF lo > hi
    THEN Ok(acc)
    ELSE IF lo = hi
    THEN deshred_step(acc, input[lo])
    ELSE LET mid  == (lo + hi) \div 2
             left == deshred_try_fold(acc, input, lo, mid)
         IN  IF left.ok
             THEN deshred_try_fold(left.value, input, mid + 1, hi)
             ELSE left

deshred(input) ==
    LET folded == deshred_try_fold(
                      [data |-> << >>, prev |-> None, data_complete |-> FALSE],
                      input, 1, Len(input))
    IN  IF ~folded.ok
        THEN folded
        ELSE IF ~folded.value.data_complete
        THEN Err("TooFewDataShards")
        ELSE IF folded.value.data = << >>
        THEN Ok(RepeatN(0, DataBufferSize))
        ELSE Ok(folded.value.data)

(***************************************************************************)
(* reed_solomon_erasure::ReedSolomon.  The crate's code is a systematic    *)
(* Reed-Solomon code over GF(2^8): the data shards are the values of a     *)
(* polynomial at the points 0..data-1, the parity shards its values at     *)
(* the next points, column by column.  The model computes the same code    *)
(* over the prime field of order 2^8 + 1, whose arithmetic is arithmetic   *)
(* modulo the order.  A shard is a sequence of field elements.             *)
(***************************************************************************)
FieldOrder == 2^8 + 1

FAdd(a, b) == (a + b) % FieldOrder
FSub(a, b) == (a + FieldOrder - b) % FieldOrder
FMul(a, b) == (a * b) % FieldOrder

RECURSIVE FPow(_, _)
FPow(a, e) ==
    IF e = 0
    THEN 1
    ELSE LET half == FPow(a, e \div 2)
         IN  FMul(FMul(half, half), IF e % 2 = 1 THEN a ELSE 1)

\* The inverses of the non-zero elements.
FInverse == [a \in 1..(FieldOrder - 1) |-> FPow(a, FieldOrder - 2)]

\* The product and the sum of the elements lo..hi of a sequence, by halves.
RECURSIVE FProduct(_, _, _)
FProduct(factors, lo, hi) ==
    IF lo > hi THEN 1
    ELSE IF lo = hi THEN factors[lo]
    ELSE LET mid == (lo + hi) \div 2
         IN  FMul(FProduct(factors, lo, mid), FProduct(factors, mid + 1, hi))

RECURSIVE FSum(_, _, _)
FSum(terms, lo, hi) ==
    IF lo > hi THEN 0
    ELSE IF lo = hi THEN terms[lo]
    ELSE LET mid == (lo + hi) \div 2
         IN  FAdd(FSum(terms, lo, mid), FSum(terms, mid + 1, hi))

\* The barycentric weights of the distinct points xs.
LagrangeWeights(xs) ==
    collect([i \in 1..Len(xs) |->
        FInverse[FProduct(collect([k \in 1..Len(xs) |->
                              IF k = i THEN 1 ELSE FSub(xs[i], xs[k])]), 1, Len(xs))]])

\* The shard at point t (not among xs) of the codeword whose shards at the
\* points xs are ys.
Interpolate(xs, ys, weights, t) ==
    LET full == FProduct(collect([k \in 1..Len(xs) |-> FSub(t, xs[k])]), 1, Len(xs))
        coef == collect([i \in 1..Len(xs) |->
                    FMul(FMul(full, FInverse[FSub(t, xs[i])]), weights[i])])
    IN  collect([col \in 1..Len(ys[1]) |->
            FSum(collect([i \in 1..Len(xs) |-> FMul(coef[i], ys[i][col])]), 1, Len(xs))])

\* ReedSolomon::new
ReedSolomon_new(data_shards, parity_shards) ==
    IF data_shards = 0 THEN Err("TooFewDataShards")
    ELSE IF parity_shards = 0 THEN Err("TooFewParityShards")
    ELSE IF data_shards + parity_shards > 2^8 THEN Err("TooManyShards")
    ELSE Ok([data_shard_count |-> data_shards, parity_shard_count |-> parity_shards])

\* ReedSolomon::encode_sep: the parity shards of the data shards.
ReedSolomon_encode_sep(rs, data, parity) ==
    IF Len(data) < rs.data_shard_count THEN Err("TooFewDataShards")
    ELSE IF Len(data) > rs.data_shard_count THEN Err("TooManyDataShards")
    ELSE IF Len(parity) < rs.parity_shard_count THEN Err("TooFewParityShards")
    ELSE IF Len(parity) > rs.parity_shard_count THEN Err("TooManyParityShards")
    ELSE IF Len(data[1]) = 0 THEN Err("EmptyShard")
    ELSE IF \E i \in 1..Len(data) : Len(data[i]) # Len(data[1])
         \/ \E j \in 1..Len(parity) : Len(parity[j]) # Len(data[1])
         THEN Err("IncorrectShardSize")
    ELSE LET xs      == collect([i \in 1..Len(data) |-> i - 1])
             weights == LagrangeWeights(xs)
         IN  Ok(collect([j \in 1..Len(parity) |->
                    Interpolate(xs, data, weights, Len(data) + j - 1)]))

\* The elements of a set of numbers among 1..n in ascending order.
Ascending(set, n) ==
    LET in_set(p) == p \in set
    IN  SelectSeq(collect([p \in 1..n |-> p]), in_set)

\* ReedSolomon::reconstruct_data on a vector of optional shards: the
\* missing data shards are computed from the first data_shard_count shards
\* present; missing parity shards stay missing.
ReedSolomon_reconstruct_data(rs, shards_) ==
    LET total   == rs.data_shard_count + rs.parity_shard_count
        present == {i \in 1..Len(shards_) : shards_[i].some}
    IN  IF Len(shards_) < total THEN Err("TooFewShards")
        ELSE IF Len(shards_) > total THEN Err("TooManyShards")
        ELSE IF \E i \in present : Len(shards_[i].value) = 0 THEN Err("EmptyShard")
        ELSE IF \E i, j \in present : Len(shards_[i].value) # Len(shards_[j].value)
             THEN Err("IncorrectShardSize")
        ELSE IF Cardinality(present) = total THEN Ok(shards_)
        ELSE IF Cardinality(present) < rs.data_shard_count THEN Err("TooFewShardsPresent")
        ELSE LET used    == SubSeq(Ascending(present, total), 1, rs.data_shard_count)
                 xs      == collect([i \in 1..Len(used) |-> used[i] - 1])
                 ys      == collect([i \in 1..Len(used) |-> shards_[used[i]].value])
                 weights == LagrangeWeights(xs)
             IN  Ok(collect([i \in 1..total |->
                        IF i <= rs.data_shard_count /\ ~shards_[i].some
                        THEN Some(Interpolate(xs, ys, weights, i - 1))
                        ELSE shards_[i]]))

\* ReedSolomonCache::get returns, for a key, the result of ReedSolomon::new
\* for that key, built once and shared.
ReedSolomonCache_get(data_shards, parity_shards) ==
    ReedSolomon_new(data_shards, parity_shards)

(***************************************************************************)
(* The shred codec, continued: code shreds, erasure shards and parsing.    *)
(***************************************************************************)
\* ShredVariant::LegacyData = 0b1010_0101
LegacyDataVariant == 165

\* Shred::new_from_parity_shard
Shred_new_from_parity_shard(slot, index, parity_shard, fec_set_index, num_data_shreds, num_coding_shreds, position, version) ==
    [ kind              |-> "code",
      signature         |-> 0,
      slot              |-> slot,
      index             |-> index,
      version           |-> version,
      fec_set_index     |-> fec_set_index,
      num_data_shreds   |-> num_data_shreds,
      num_coding_shreds |-> num_coding_shreds,
      position          |-> position,
      parity            |-> parity_shard ]

\* The serialized legacy data shred: signature, variant, slot, index,
\* version, fec_set_index, parent_offset, flags, size, then the data
\* region padded with zeros to the capacity.  One field element for each
\* header field and each byte of the data region.
Shred_payload(shred) ==
    << shred.signature, LegacyDataVariant, shred.slot, shred.index,
       shred.version, shred.fec_set_index, shred.parent_offset, shred.flags,
       Len(shred.data) >>
      \o shred.data
      \o [i \in 1..(DataBufferSize - Len(shred.data)) |-> 0]

\* Shred::erasure_shard: a legacy data shred is erasure coded whole, a
\* code shred by its parity body.
Shred_erasure_shard(shred) ==
    IF Shred_is_data(shred) THEN Ok(Shred_payload(shred)) ELSE Ok(shred.parity)

\* Shred::erasure_shard_index: index - fec_set_index for a data shred,
\* num_data_shreds + position for a code shred.
Shred_erasure_shard_index(shred) ==
    IF Shred_is_data(shred)
    THEN IF shred.index >= shred.fec_set_index
         THEN Ok(shred.index - shred.fec_set_index)
         ELSE Err("InvalidErasureShardIndex")
    ELSE Ok(shred.num_data_shreds + shred.position)

\* Shred::new_from_serialized_shred on a reconstructed data shard: the
\* inverse of Shred_payload; anything that is no serialized data shred is
\* refused.
Shred_new_from_serialized_shred(shard) ==
    IF Len(shard) # 9 + DataBufferSize \/ shard[2] # LegacyDataVariant
    THEN Err("InvalidShredVariant")
    ELSE IF shard[9] > DataBufferSize
    THEN Err("InvalidDataSize")
    ELSE Ok([ kind          |-> "data",
              signature     |-> shard[1],
              slot          |-> shard[3],
              index         |-> shard[4],
              version       |-> shard[5],
              fec_set_index |-> shard[6],
              parent_offset |-> shard[7],
              flags         |-> shard[8],
              data          |-> SubSeq(shard, 10, 9 + shard[9]) ])

(***************************************************************************)
(* Shredder::generate_coding_shreds and data_shreds_to_coding_shreds.      *)
(* A function that returns no Result either returns or panics.             *)
(***************************************************************************)
Returned(v) == [panicked |-> FALSE, value |-> v]
Panicked(m) == [panicked |-> TRUE, message |-> m]

\* data.last().map(Shred::last_in_slot).unwrap_or(true)
chunk_is_last_in_slot(chunk) ==
    IF chunk = << >> THEN TRUE ELSE Shred_last_in_slot(chunk[Len(chunk)])

num_coding_never_last(num_data, is_last_in_slot) ==
    get_erasure_batch_size(num_data, FALSE) - num_data

\* get_erasure_batch_size(num_data, is_last_in_slot).checked_sub(num_data)
num_coding_of(num_data, is_last_in_slot) ==
    get_erasure_batch_size(num_data, is_last_in_slot) - num_data

\* The fec_set_index given to every code shred of a set: that of the
\* set's first data shred.
code_fec_set_index(fec_set_index) == fec_set_index

generate_coding_shreds(data, next_code_index) ==
    IF data = << >>
    THEN Panicked("data.first().unwrap()")
    ELSE
    LET first         == data[1]
        slot          == first.slot
        index         == first.index
        version       == first.version
        fec_set_index == first.fec_set_index
        num_data      == Len(data)
        is_last_in_slot == chunk_is_last_in_slot(data)
        batch         == get_erasure_batch_size(num_data, is_last_in_slot)
        num_coding    == num_coding_of(num_data, is_last_in_slot)
        shards_       == collect([i \in 1..num_data |-> Shred_erasure_shard(data[i]).value])
        zeroed        == collect([j \in 1..num_coding |-> collect(RepeatN(0, Len(shards_[1])))])
        rs            == ReedSolomonCache_get(num_data, num_coding)
        encoded       == ReedSolomon_encode_sep(rs.value, shards_, zeroed)
    IN  IF fec_set_index # index
        THEN Panicked("assert_eq!(fec_set_index, index)")
        ELSE IF \E i \in 1..num_data :
                   \/ data[i].slot # slot
                   \/ data[i].version # version
                   \/ data[i].fec_set_index # fec_set_index
        THEN Panicked("assert!(all shreds share slot, version and fec_set_index)")
        ELSE IF batch < num_data
        THEN Panicked("checked_sub(num_data).unwrap()")
        ELSE IF ~(num_coding > 0)
        THEN Panicked("assert!(num_coding > 0)")
        ELSE IF ~rs.ok
        THEN Panicked("reed_solomon_cache.get(num_data, num_coding).unwrap()")
        ELSE IF ~encoded.ok
        THEN Panicked("encode_sep(&data, &mut parity[..]).unwrap()")
        ELSE IF num_data > U16_MAX \/ num_coding > U16_MAX
        THEN Panicked("u16::try_from(..).unwrap()")
        ELSE Returned(
            [i \in 1..num_coding |->
                Shred_new_from_parity_shard(
                    slot, U32(next_code_index + (i - 1)), encoded.value[i],
                    code_fec_set_index(fec_set_index), num_data, num_coding,
                    i - 1, version)])

\* The chunks of data_shreds_to_coding_shreds: the runs of data shreds of
\* equal fec_set_index.
fec_set_chunks(data) ==
    LET runs == group_by([n \in 1..Len(data) |-> data[n].fec_set_index])
    IN  [g \in 1..Len(runs) |->
            SubSeq(data, runs[g].first, runs[g].first + runs[g].size - 1)]

\* The scan over the chunks with next_code_index advanced by the whole
\* erasure batch size of every chunk.
RECURSIVE next_code_index_scan_by_batch_size(_, _, _)
next_code_index_scan_by_batch_size(chunks_, next_code_index, g) ==
    IF g > Len(chunks_)
    THEN << >>
    ELSE LET num_data_shreds    == Len(chunks_[g])
             is_last_in_slot    == chunk_is_last_in_slot(chunks_[g])
             erasure_batch_size == get_erasure_batch_size(num_data_shreds, is_last_in_slot)
             advanced == U32(next_code_index + erasure_batch_size)
         IN  << advanced >> \o next_code_index_scan_by_batch_size(chunks_, advanced, g + 1)

\* The scan over the chunks: element g + 1 is next_code_index advanced by
\* the parity counts of the chunks 1..g.
RECURSIVE next_code_index_scan(_, _, _)
next_code_index_scan(chunks_, next_code_index, g) ==
    IF g > Len(chunks_)
    THEN << >>
    ELSE LET num_data_shreds    == Len(chunks_[g])
             is_last_in_slot    == chunk_is_last_in_slot(chunks_[g])
             erasure_batch_size == get_erasure_batch_size(num_data_shreds, is_last_in_slot)
             advanced == U32(next_code_index + (erasure_batch_size - num_data_shreds))
         IN  << advanced >> \o next_code_index_scan(chunks_, advanced, g + 1)

\* flat_map over the chunks zipped with their next_code_index, in chunk
\* order; a panic of any chunk is the panic of the call.
RECURSIVE flat_map_generate(_, _, _)
flat_map_generate(chunks_, indexes, g) ==
    IF g > Len(chunks_)
    THEN Returned(<< >>)
    ELSE LET head == generate_coding_shreds(chunks_[g], indexes[g])
             tail == flat_map_generate(chunks_, indexes, g + 1)
         IN  IF head.panicked THEN head
             ELSE IF tail.panicked THEN tail
             ELSE Returned(head.value \o tail.value)

\* Both branches, the serial one for at most one chunk and the parallel
\* one, collect the chunks' code shreds in chunk order.
data_shreds_to_coding_shreds(keypair, data, next_code_index) ==
    IF data = << >>
    THEN Returned(Ok(<< >>))
    ELSE LET chunks_ == fec_set_chunks(data)
             indexes == << next_code_index >>
                          \o next_code_index_scan(chunks_, next_code_index, 1)
             coding  == flat_map_generate(chunks_, indexes, 1)
         IN  IF coding.panicked
             THEN coding
             ELSE Returned(Ok([n \in 1..Len(coding.value) |->
                                  Shred_sign(coding.value[n], keypair)]))

(***************************************************************************)
(* Shredder::try_recovery                                                  *)
(***************************************************************************)
\* shreds.iter().find(|shred| shred.is_code())
find_code_shred(input) ==
    LET codes == {n \in 1..Len(input) : Shred_is_code(input[n])}
    IN  IF codes = {} THEN None
        ELSE Some(input[CHOOSE n \in codes : \A m \in codes : n <= m])

nothing_to_recover_above_size(num_data_shreds, num_coding_shreds, len) ==
    num_coding_shreds = 0 \/ len > num_data_shreds + num_coding_shreds

nothing_to_recover_loose(num_data_shreds, num_coding_shreds, len) ==
    num_coding_shreds = 0 \/ len >= num_data_shreds

\* if num_coding_shreds == 0 || shreds.len() >= fec_set_size
nothing_to_recover(num_data_shreds, num_coding_shreds, len) ==
    num_coding_shreds = 0 \/ len >= num_data_shreds + num_coding_shreds

mask_after_never_set(mask, index, num_data_shreds) == mask

\* if index < num_data_shreds { mask[index] = true; }
mask_after(mask, index, num_data_shreds) ==
    IF index < num_data_shreds THEN [mask EXCEPT ![index + 1] = TRUE] ELSE mask

\* The body of the loop with index <= fec_set_size for its test.
place_shard_index_at_most_size(acc, shred, num_data_shreds, fec_set_size) ==
    LET index == Shred_erasure_shard_index(shred)
        shard == Shred_erasure_shard(shred)
    IN  IF ~index.ok \/ ~(index.value <= fec_set_size)
        THEN Err("InvalidIndex")
        ELSE IF ~shard.ok
        THEN shard
        ELSE Ok([ shards |-> [acc.shards EXCEPT ![index.value + 1] = Some(shard.value)],
                  mask   |-> mask_after(acc.mask, index.value, num_data_shreds) ])

\* The body of the loop over the input shreds: one shred placed into
\* shards and mask, or the error the function returns.
place_shard(acc, shred, num_data_shreds, fec_set_size) ==
    LET index == Shred_erasure_shard_index(shred)
        shard == Shred_erasure_shard(shred)
    IN  IF ~index.ok \/ ~(index.value < fec_set_size)
        THEN Err("InvalidIndex")
        ELSE IF ~shard.ok
        THEN shard
        ELSE Ok([ shards |-> [acc.shards EXCEPT ![index.value + 1] = Some(shard.value)],
                  mask   |-> mask_after(acc.mask, index.value, num_data_shreds) ])

\* The loop over the input shreds lo..hi in order, the first half and then
\* the second: fills shards and mask, or fails at the first error.
RECURSIVE place_shards(_, _, _, _, _, _)
place_shards(input, lo, hi, acc, num_data_shreds, fec_set_size) ==
    IF lo > hi
    THEN Ok(acc)
    ELSE IF lo = hi
    THEN place_shard(acc, input[lo], num_data_shreds, fec_set_size)
    ELSE LET mid  == (lo + hi) \div 2
             left == place_shards(input, lo, mid, acc, num_data_shreds, fec_set_size)
         IN  IF left.ok
             THEN place_shards(input, mid + 1, hi, left.value, num_data_shreds, fec_set_size)
             ELSE left

\* The filters over mask.zip(shards), collected last position first.
RECURSIVE recovered_data_from_reversed(_, _, _, _, _)
recovered_data_from_reversed(mask, shards_, pos, slot, num_data_shreds) ==
    IF pos > Len(mask) \/ pos > Len(shards_)
    THEN << >>
    ELSE LET rest   == recovered_data_from_reversed(mask, shards_, pos + 1, slot, num_data_shreds)
             parsed == Shred_new_from_serialized_shred(shards_[pos].value)
             index  == Shred_erasure_shard_index(parsed.value)
         IN  IF mask[pos] THEN rest
             ELSE IF ~shards_[pos].some THEN rest
             ELSE IF ~parsed.ok THEN rest
             ELSE IF /\ parsed.value.slot = slot
                     /\ Shred_is_data(parsed.value)
                     /\ index.ok
                     /\ index.value < num_data_shreds
             THEN rest \o << parsed.value >>
             ELSE rest

\* The filters over mask.zip(shards): the shreds parsed from the shards at
\* the positions the mask leaves open, in position order.
RECURSIVE recovered_data_from(_, _, _, _, _)
recovered_data_from(mask, shards_, pos, slot, num_data_shreds) ==
    IF pos > Len(mask) \/ pos > Len(shards_)
    THEN << >>
    ELSE LET rest   == recovered_data_from(mask, shards_, pos + 1, slot, num_data_shreds)
             parsed == Shred_new_from_serialized_shred(shards_[pos].value)
             index  == Shred_erasure_shard_index(parsed.value)
         IN  IF mask[pos] THEN rest
             ELSE IF ~shards_[pos].some THEN rest
             ELSE IF ~parsed.ok THEN rest
             ELSE IF /\ parsed.value.slot = slot
                     /\ Shred_is_data(parsed.value)
                     /\ index.ok
                     /\ index.value < num_data_shreds
             THEN << parsed.value >> \o rest
             ELSE rest

\* try_recovery with its first two early returns in the other order.
try_recovery_finding_code_first(input) ==
    LET slot              == input[1].slot
        fec_set_index     == input[1].fec_set_index
        code              == find_code_shred(input)
        num_data_shreds   == code.value.num_data_shreds
        num_coding_shreds == code.value.num_coding_shreds
        fec_set_size      == num_data_shreds + num_coding_shreds
        placed == place_shards(
                      input, 1, Len(input),
                      [ shards |-> collect(RepeatN(None, fec_set_size)),
                        mask   |-> collect(RepeatN(FALSE, num_data_shreds)) ],
                      num_data_shreds, fec_set_size)
        rs            == ReedSolomonCache_get(num_data_shreds, num_coding_shreds)
        reconstructed == ReedSolomon_reconstruct_data(rs.value, placed.value.shards)
    IN  IF ~code.some
        THEN Ok(<< >>)
        ELSE IF input = << >>
        THEN Err("TooFewShardsPresent")
        ELSE IF nothing_to_recover(num_data_shreds, num_coding_shreds, Len(input))
        THEN Ok(<< >>)
        ELSE IF ~placed.ok
        THEN placed
        ELSE IF ~rs.ok
        THEN rs
        ELSE IF ~reconstructed.ok
        THEN reconstructed
        ELSE Ok(recovered_data_from(placed.value.mask, reconstructed.value, 1,
                                    slot, num_data_shreds))

\* try_recovery that goes on with the shards it has when the codec fails.
try_recovery_ignoring_codec_error(input) ==
    IF input = << >>
    THEN Err("TooFewShardsPresent")
    ELSE
    LET slot              == input[1].slot
        fec_set_index     == input[1].fec_set_index
        code              == find_code_shred(input)
        num_data_shreds   == code.value.num_data_shreds
        num_coding_shreds == code.value.num_coding_shreds
        fec_set_size      == num_data_shreds + num_coding_shreds
        placed == place_shards(
                      input, 1, Len(input),
                      [ shards |-> collect(RepeatN(None, fec_set_size)),
                        mask   |-> collect(RepeatN(FALSE, num_data_shreds)) ],
                      num_data_shreds, fec_set_size)
        rs            == ReedSolomonCache_get(num_data_shreds, num_coding_shreds)
        reconstructed == ReedSolomon_reconstruct_data(rs.value, placed.value.shards)
    IN  IF ~code.some
        THEN Ok(<< >>)
        ELSE IF nothing_to_recover(num_data_shreds, num_coding_shreds, Len(input))
        THEN Ok(<< >>)
        ELSE IF ~placed.ok
        THEN placed
        ELSE IF ~rs.ok
        THEN rs
        ELSE IF ~reconstructed.ok
        THEN Ok(recovered_data_from(placed.value.mask, placed.value.shards, 1,
                                    slot, num_data_shreds))
        ELSE Ok(recovered_data_from(placed.value.mask, reconstructed.value, 1,
                                    slot, num_data_shreds))

try_recovery(input) ==
    IF input = << >>
    THEN Err("TooFewShardsPresent")
    ELSE
    LET slot              == input[1].slot
        fec_set_index     == input[1].fec_set_index
        code              == find_code_shred(input)
        num_data_shreds   == code.value.num_data_shreds
        num_coding_shreds == code.value.num_coding_shreds
        fec_set_size      == num_data_shreds + num_coding_shreds
        placed == place_shards(
                      input, 1, Len(input),
                      [ shards |-> collect(RepeatN(None, fec_set_size)),
                        mask   |-> collect(RepeatN(FALSE, num_data_shreds)) ],
                      num_data_shreds, fec_set_size)
        rs            == ReedSolomonCache_get(num_data_shreds, num_coding_shreds)
        reconstructed == ReedSolomon_reconstruct_data(rs.value, placed.value.shards)
    IN  IF ~code.some
        THEN Ok(<< >>)
        ELSE IF nothing_to_recover(num_data_shreds, num_coding_shreds, Len(input))
        THEN Ok(<< >>)
        ELSE IF ~placed.ok
        THEN placed
        ELSE IF ~rs.ok
        THEN rs
        ELSE IF ~reconstructed.ok
        THEN reconstructed
        ELSE Ok(recovered_data_from(placed.value.mask, reconstructed.value, 1,
                                    slot, num_data_shreds))

\* The keys try_recovery asks reed_solomon_cache.get for, in order: none
\* when it returns before line 466, else the one key of the set.
try_recovery_cache_gets(input) ==
    IF input = << >>
    THEN << >>
    ELSE
    LET code              == find_code_shred(input)
        num_data_shreds   == code.value.num_data_shreds
        num_coding_shreds == code.value.num_coding_shreds
        fec_set_size      == num_data_shreds + num_coding_shreds
        placed == place_shards(
                      input, 1, Len(input),
                      [ shards |-> collect(RepeatN(None, fec_set_size)),
                        mask   |-> collect(RepeatN(FALSE, num_data_shreds)) ],
                      num_data_shreds, fec_set_size)
    IN  IF ~code.some
        THEN << >>
        ELSE IF nothing_to_recover(num_data_shreds, num_coding_shreds, Len(input))
        THEN << >>
        ELSE IF ~placed.ok
        THEN << >>
        ELSE << <<num_data_shreds, num_coding_shreds>> >>

(***************************************************************************)
(* SpecPlanner: get_fec_set_offsets applied to bounded inputs.             *)
(***************************************************************************)
\* PAR_THREAD_POOL with no parallel iterator to run.
PoolIdle == pool = << >>

\* ReedSolomonCache::default() with no caller.
CacheIdle ==
    /\ cache = << >>
    /\ lock = [readers |-> {}, writer |-> None]
    /\ cells = << >>
    /\ threads = << >>
    /\ observed = {}

Idle == /\ shredder = << >>
        /\ data_shreds = << >>
        /\ coding_shreds = << >>
        /\ shreds = << >>
        /\ ret = << >>
        /\ CacheIdle
        /\ PoolIdle

InitPlanner ==
    /\ pc = "planner"
    /\ args \in [num_shreds : 0..MaxNumShreds, min_chunk_size : 1..MaxMinChunkSize]
    /\ args.num_shreds \div args.min_chunk_size <= MaxPlannerChunks
    /\ Idle

GetFecSetOffsets ==
    /\ pc = "planner"
    /\ ret' = get_fec_set_offsets(args.num_shreds, args.min_chunk_size)
    /\ pc' = "planner_done"
    /\ UNCHANGED <<args, shredder, data_shreds, coding_shreds, shreds>>
    /\ UNCHANGED cache_vars
    /\ UNCHANGED pool

NextPlanner == GetFecSetOffsets

SpecPlanner == InitPlanner /\ [][NextPlanner]_vars

(***************************************************************************)
(* SpecSizer: get_erasure_batch_size applied to bounded inputs.            *)
(***************************************************************************)
InitSizer ==
    /\ pc = "sizer"
    /\ args \in [num_data_shreds : 0..MaxNumData, is_last_in_slot : BOOLEAN]
    /\ Idle

GetErasureBatchSize ==
    /\ pc = "sizer"
    /\ ret' = get_erasure_batch_size(args.num_data_shreds, args.is_last_in_slot)
    /\ pc' = "sizer_done"
    /\ UNCHANGED <<args, shredder, data_shreds, coding_shreds, shreds>>
    /\ UNCHANGED cache_vars
    /\ UNCHANGED pool

NextSizer == GetErasureBatchSize

SpecSizer == InitSizer /\ [][NextSizer]_vars

(***************************************************************************)
(* Spec: the legacy data shredder and the reassembler.                     *)
(*   start --EntriesToDataShreds--> shredded --Deshred--> deshredded       *)
(***************************************************************************)
\* Byte i of the serialized entries of pattern seed; the patterns hold
\* zero bytes as well.
PayloadByte(seed, i) == (7 * seed + i * (seed + 2) + (i \div 3)) % 5

\* bincode::serialize(entries) is never empty: the serialization of a
\* Vec starts with its length.
SerializedEntries ==
    { [i \in 1..len |-> PayloadByte(seed, i)] :
        len \in 1..MaxPayloadLen, seed \in 0..MaxSeed }

\* The contexts Shredder::new accepts, among bounded arguments.
ShredderContexts ==
    LET made == { Shredder_new(slot, parent_slot, reference_tick, 1) :
                    slot \in {MaxSlot},
                    parent_slot \in {MaxSlot - 5, MaxSlot, MaxSlot + 1},
                    reference_tick \in {0, 255} }
    IN  { r.value : r \in { m \in made : m.ok } }

\* The signing keypair.
Keypair == 1

\* next_shred_index as the tests pass it.
NextShredIndexes == {0, 18}

Init ==
    /\ pc = "start"
    /\ shredder \in ShredderContexts
    /\ args \in [ entries          : SerializedEntries,
                  is_last_in_slot  : BOOLEAN,
                  next_shred_index : NextShredIndexes ]
    /\ data_shreds = << >>
    /\ coding_shreds = << >>
    /\ shreds = << >>
    /\ ret = << >>
    /\ CacheIdle
    /\ PoolIdle

EntriesToDataShreds ==
    /\ pc = "start"
    /\ data_shreds' = entries_to_data_shreds(shredder, Keypair, args.entries,
                                             args.is_last_in_slot,
                                             args.next_shred_index)
    /\ pc' = "shredded"
    /\ UNCHANGED <<args, shredder, coding_shreds, shreds, ret>>
    /\ UNCHANGED cache_vars
    /\ UNCHANGED pool

\* Shredder::deshred(data_shreds.iter().map(Shred::payload))
Deshred ==
    /\ pc = "shredded"
    /\ shreds' = data_shreds
    /\ ret' = deshred(data_shreds)
    /\ pc' = "deshredded"
    /\ UNCHANGED <<args, shredder, data_shreds, coding_shreds>>
    /\ UNCHANGED cache_vars
    /\ UNCHANGED pool

Next == EntriesToDataShreds \/ Deshred

Spec == Init /\ [][Next]_vars

(***************************************************************************)
(* SpecCoding: the coding shredder on prefixes of the data shreds of a     *)
(* call, as tests::test_max_coding_shreds runs it.                         *)
(*   start --EntriesToDataShreds--> shredded                               *)
(*         --DataShredsToCodingShreds--> coded                             *)
(***************************************************************************)
\* Numbers of chunks at and around the multiples of DATA_SHREDS_PER_FEC_BLOCK.
CodingChunkCounts ==
    { k \in 1..MaxCodingChunks :
        \/ k <= 3
        \/ k % DATA_SHREDS_PER_FEC_BLOCK
              \in {0, 1, DATA_SHREDS_PER_FEC_BLOCK - 1} }

\* Serialized entries of k chunks, the last chunk one byte short.
EntriesOfChunks(k, seed) ==
    [i \in 1..(k * DataBufferSize - 1) |-> PayloadByte(seed, i)]

\* The context of tests::run_test_recovery_and_reassembly: parent slot - 5.
TestContext == Shredder_new(MaxSlot, MaxSlot - 5, 0, 1).value

\* for size in (1..data_shreds.len()).step_by(5), the empty slice and the
\* whole of the data shreds.
PrefixSizes(len) == {0, len} \cup { size \in 1..(len - 1) : size % PrefixStep = 1 }

InitCoding ==
    /\ pc = "start"
    /\ shredder = TestContext
    /\ args \in [ entries          : { EntriesOfChunks(k, 0) : k \in CodingChunkCounts },
                  is_last_in_slot  : BOOLEAN,
                  next_shred_index : {18},
                  next_code_index  : {18} ]
    /\ data_shreds = << >>
    /\ coding_shreds = << >>
    /\ shreds = << >>
    /\ ret = << >>
    /\ CacheIdle
    /\ PoolIdle

\* Shredder::data_shreds_to_coding_shreds(keypair, &data_shreds[..size],
\* next_code_index, ..).unwrap()
DataShredsToCodingShreds ==
    /\ pc = "shredded"
    /\ \E size \in PrefixSizes(Len(data_shreds)) :
          LET prefix == SubSeq(data_shreds, 1, size)
              made   == data_shreds_to_coding_shreds(Keypair, prefix, args.next_code_index)
          IN  /\ shreds' = prefix
              /\ ret' = made
              /\ coding_shreds' = IF made.panicked THEN << >> ELSE made.value.value
    /\ pc' = "coded"
    /\ UNCHANGED <<args, shredder, data_shreds>>
    /\ UNCHANGED cache_vars
    /\ UNCHANGED pool

NextCoding == EntriesToDataShreds \/ DataShredsToCodingShreds

SpecCoding == InitCoding /\ [][NextCoding]_vars

(***************************************************************************)
(* SpecRecovery: one FEC set made by entries_to_shreds, part of it lost,   *)
(* the rest handed to try_recovery.                                        *)
(*   start --EntriesToShreds--> made --TryRecovery--> recovered            *)
(***************************************************************************)
InitRecovery ==
    /\ pc = "start"
    /\ shredder = TestContext
    /\ args \in [ entries          : { EntriesOfChunks(k, seed) :
                                         k \in 1..MaxRecoveryChunks,
                                         seed \in 0..MaxSeed },
                  is_last_in_slot  : BOOLEAN,
                  next_shred_index : {0, 25},
                  next_code_index  : {3} ]
    /\ data_shreds = << >>
    /\ coding_shreds = << >>
    /\ shreds = << >>
    /\ ret = << >>
    /\ CacheIdle
    /\ PoolIdle

\* Shredder::entries_to_shreds with merkle_variant = false
EntriesToShreds ==
    /\ pc = "start"
    /\ LET data == entries_to_data_shreds(shredder, Keypair, args.entries,
                                          args.is_last_in_slot, args.next_shred_index)
           made == data_shreds_to_coding_shreds(Keypair, data, args.next_code_index)
       IN  /\ ~made.panicked
           /\ made.value.ok
           /\ data_shreds' = data
           /\ coding_shreds' = made.value.value
    /\ pc' = "made"
    /\ UNCHANGED <<args, shredder, shreds, ret>>
    /\ UNCHANGED cache_vars
    /\ UNCHANGED pool

\* The elements of seq at the positions of keep, in order.
Keep(seq, keep) ==
    LET at == Ascending(keep, Len(seq)) IN collect([i \in 1..Len(at) |-> seq[at[i]]])

\* The code shreds at both ends of the set's parity.
ParityWindow(num_coding) ==
    { j \in 1..num_coding : j <= MaxParityWindow \/ j > num_coding - MaxParityWindow }

\* The sets of code shreds that survive: any part of the window alone, or
\* all code shreds but any part of the window.
ParitySurvivors(num_coding) ==
    SUBSET ParityWindow(num_coding)
      \cup { (1..num_coding) \ lost : lost \in SUBSET ParityWindow(num_coding) }

\* Shredder::try_recovery(survivors, &reed_solomon_cache): every data shred
\* and every code shred may be lost; the survivors arrive data shreds
\* first or code shreds first.  All survivors are of one slot and FEC set,
\* and their code shreds agree on the set's size, as the debug assertions
\* of try_recovery demand.
TryRecovery ==
    /\ pc = "made"
    /\ \E data_kept \in SUBSET (1..Len(data_shreds)),
          code_kept \in ParitySurvivors(Len(coding_shreds)),
          data_first \in BOOLEAN :
          LET data == Keep(data_shreds, data_kept)
              code == Keep(coding_shreds, code_kept)
          IN  /\ shreds' = IF data_first THEN data \o code ELSE code \o data
              /\ ret' = try_recovery(shreds')
    /\ pc' = "recovered"
    /\ UNCHANGED <<args, shredder, data_shreds, coding_shreds>>
    /\ UNCHANGED cache_vars
    /\ UNCHANGED pool

NextRecovery == EntriesToShreds \/ TryRecovery

SpecRecovery == InitRecovery /\ [][NextRecovery]_vars

(***************************************************************************)
(* SpecParallel: entries_to_data_shreds and data_shreds_to_coding_shreds   *)
(* with the parallel iterators run on PAR_THREAD_POOL.  The pool splits    *)
(* the items of a parallel iterator into contiguous pieces; the pieces     *)
(* run to completion in any order; collect() takes the results of the      *)
(* pieces by the place of the piece.                                       *)
(*   start --ParDataBegin--> par_data --ParDataPiece*--> par_data          *)
(*         --ParDataCollect--> shredded                                    *)
(*         --CodingSerial--> coded                                         *)
(*      or --ParCodingBegin--> par_coding --ParCodingPiece*-->             *)
(*         par_coding --ParCodingCollect--> coded                          *)
(***************************************************************************)
\* The pieces of n items: contiguous ranges of near equal size.
par_pieces(n) ==
    LET p == Min(n, MaxPieces)
    IN  [j \in 1..p |-> [lo |-> ((j - 1) * n) \div p + 1, hi |-> (j * n) \div p]]

\* into_par_iter(): the pool with every piece still to run.
into_par_iter(n) ==
    [ pieces  |-> par_pieces(n),
      results |-> [j \in 1..Len(par_pieces(n)) |-> None],
      order   |-> << >> ]

\* The results of the pieces named by places, one after the other.
RECURSIVE concat_results(_, _, _)
concat_results(results, places, k) ==
    IF k > Len(places)
    THEN << >>
    ELSE results[places[k]].value \o concat_results(results, places, k + 1)

par_collect_in_completion_order(results, order) ==
    concat_results(results, order, 1)

\* ParallelIterator::collect() into a Vec: the results in the order of
\* the items, whatever the order in which the pieces completed.
par_collect(results, order) ==
    concat_results(results, [j \in 1..Len(results) |-> j], 1)

\* The closure of the map of entries_to_data_shreds on item n.
data_shred_at(self, keypair, serialized_shreds, is_last_in_slot, next_shred_index, n) ==
    entries_to_data_shreds(self, keypair, serialized_shreds, is_last_in_slot, next_shred_index)[n]

\* The closure of the flat_map of data_shreds_to_coding_shreds on chunk g.
coding_shreds_at(data, next_code_index, g) ==
    LET chunks_ == fec_set_chunks(data)
        indexes == << next_code_index >>
                     \o next_code_index_scan(chunks_, next_code_index, 1)
    IN  generate_coding_shreds(chunks_[g], indexes[g])

\* Numbers of chunks: a few, and whole FEC sets.
ParChunkCounts ==
    { k \in 1..MaxParChunks :
        k <= MaxPieces + 1 \/ (k >= 2 * DATA_SHREDS_PER_FEC_BLOCK
                                /\ k % DATA_SHREDS_PER_FEC_BLOCK = 0) }

InitParallel ==
    /\ pc = "start"
    /\ shredder = TestContext
    /\ args \in [ entries          : { EntriesOfChunks(k, 0) : k \in ParChunkCounts },
                  is_last_in_slot  : BOOLEAN,
                  next_shred_index : {18},
                  next_code_index  : {7} ]
    /\ data_shreds = << >>
    /\ coding_shreds = << >>
    /\ shreds = << >>
    /\ ret = << >>
    /\ CacheIdle
    /\ PoolIdle

\* shreds.into_par_iter().zip(fec_set_offsets).enumerate()
ParDataBegin ==
    /\ pc = "start"
    /\ pool' = into_par_iter(DivCeil(Len(args.entries), DataBufferSize))
    /\ pc' = "par_data"
    /\ UNCHANGED <<args, shredder, data_shreds, coding_shreds, shreds, ret>>
    /\ UNCHANGED cache_vars

\* A worker runs the map on the items of a piece.
ParDataPiece ==
    /\ pc = "par_data"
    /\ \E j \in 1..Len(pool.pieces) :
          /\ ~pool.results[j].some
          /\ pool' = [pool EXCEPT
                !.results[j] =
                    Some([n \in 1..(pool.pieces[j].hi - pool.pieces[j].lo + 1) |->
                            data_shred_at(shredder, Keypair, args.entries,
                                          args.is_last_in_slot, args.next_shred_index,
                                          pool.pieces[j].lo + n - 1)]),
                !.order = Append(@, j)]
    /\ UNCHANGED <<pc, args, shredder, data_shreds, coding_shreds, shreds, ret>>
    /\ UNCHANGED cache_vars

\* .collect() once every piece has run.
ParDataCollect ==
    /\ pc = "par_data"
    /\ \A j \in 1..Len(pool.pieces) : pool.results[j].some
    /\ data_shreds' = par_collect(pool.results, pool.order)
    /\ pc' = "shredded"
    /\ UNCHANGED <<args, shredder, coding_shreds, shreds, ret, pool>>
    /\ UNCHANGED cache_vars

\* chunks.len() <= 1: the serial flat_map, then the signatures.
CodingSerial ==
    /\ pc = "shredded"
    /\ Len(fec_set_chunks(data_shreds)) <= 1
    /\ ret' = data_shreds_to_coding_shreds(Keypair, data_shreds, args.next_code_index)
    /\ coding_shreds' = IF ret'.panicked THEN << >> ELSE ret'.value.value
    /\ pc' = "coded"
    /\ UNCHANGED <<args, shredder, data_shreds, shreds, pool>>
    /\ UNCHANGED cache_vars

\* chunks.into_par_iter().zip(next_code_index)
ParCodingBegin ==
    /\ pc = "shredded"
    /\ Len(fec_set_chunks(data_shreds)) > 1
    /\ pool' = into_par_iter(Len(fec_set_chunks(data_shreds)))
    /\ pc' = "par_coding"
    /\ UNCHANGED <<args, shredder, data_shreds, coding_shreds, shreds, ret>>
    /\ UNCHANGED cache_vars

\* A worker runs the flat_map on the chunks of a piece.
ParCodingPiece ==
    /\ pc = "par_coding"
    /\ \E j \in 1..Len(pool.pieces) :
          /\ ~pool.results[j].some
          /\ LET made == [g \in pool.pieces[j].lo..pool.pieces[j].hi |->
                            coding_shreds_at(data_shreds, args.next_code_index, g)]
                 flat == concat_results(
                             [g \in 1..(pool.pieces[j].hi - pool.pieces[j].lo + 1) |->
                                 made[pool.pieces[j].lo + g - 1]],
                             [g \in 1..(pool.pieces[j].hi - pool.pieces[j].lo + 1) |-> g], 1)
             IN  /\ \A g \in DOMAIN made : ~made[g].panicked
                 /\ pool' = [pool EXCEPT !.results[j] = Some(flat),
                                         !.order = Append(@, j)]
    /\ UNCHANGED <<pc, args, shredder, data_shreds, coding_shreds, shreds, ret>>
    /\ UNCHANGED cache_vars

\* .collect() once every piece has run, then coding_shred.sign(keypair)
\* on every code shred in place.
ParCodingCollect ==
    /\ pc = "par_coding"
    /\ \A j \in 1..Len(pool.pieces) : pool.results[j].some
    /\ LET collected == par_collect(pool.results, pool.order)
       IN  coding_shreds' = [n \in 1..Len(collected) |-> Shred_sign(collected[n], Keypair)]
    /\ ret' = Returned(Ok(coding_shreds'))
    /\ pc' = "coded"
    /\ UNCHANGED <<args, shredder, data_shreds, shreds, pool>>
    /\ UNCHANGED cache_vars

NextParallel ==
    \/ ParDataBegin
    \/ ParDataPiece
    \/ ParDataCollect
    \/ CodingSerial
    \/ ParCodingBegin
    \/ ParCodingPiece
    \/ ParCodingCollect

SpecParallel == InitParallel /\ [][NextParallel]_vars

(***************************************************************************)
(* lazy_lru::LruCache as the ReedSolomonCache uses it: a sequence of       *)
(* entries [key, value], the least recently used first.                    *)
(***************************************************************************)
\* A capacity of twice ReedSolomonCache::CAPACITY.
CAPACITY_doubled == 8 * DATA_SHREDS_PER_FEC_BLOCK

\* ReedSolomonCache::CAPACITY
CAPACITY == 4 * DATA_SHREDS_PER_FEC_BLOCK

\* The position of key among the entries, 0 if it has no entry.
LruCache_position(entries, key) ==
    LET at == {n \in 1..Len(entries) : entries[n].key = key}
    IN  IF at = {} THEN 0 ELSE CHOOSE n \in at : TRUE

\* The entries without the one at position n.
LruCache_without(entries, n) ==
    SubSeq(entries, 1, n - 1) \o SubSeq(entries, n + 1, Len(entries))

\* LruCache::get(&key).cloned(): the value of the key, which becomes the
\* most recently used.
LruCache_get(entries, key) ==
    LET n == LruCache_position(entries, key)
    IN  IF n = 0
        THEN [value |-> None, entries |-> entries]
        ELSE [value   |-> Some(entries[n].value),
              entries |-> Append(LruCache_without(entries, n), entries[n])]

\* LruCache::put(key, value): the key's entry is replaced or added as the
\* most recently used; beyond the capacity the least recently used entries
\* are evicted.
LruCache_put(entries, key, value, capacity) ==
    LET n     == LruCache_position(entries, key)
        rest  == IF n = 0 THEN entries ELSE LruCache_without(entries, n)
        added == Append(rest, [key |-> key, value |-> value])
        over  == Max(Len(added) - capacity, 0)
    IN  [ entries |-> SubSeq(added, over + 1, Len(added)),
          evicted |-> { added[i].value : i \in 1..over } ]

(***************************************************************************)
(* SpecCache: threads calling ReedSolomonCache::get concurrently.  A       *)
(* thread is at one of                                                     *)
(*   idle        between calls                                             *)
(*   read_lock   line 542, before self.0.read()                            *)
(*   read        line 542, holding the shared lock                         *)
(*   write_lock  line 545, before self.0.write()                           *)
(*   write       lines 546-550, holding the exclusive lock                 *)
(*   once        line 554, at entry.get_or_init                            *)
(*   init        line 554, inside the closure of get_or_init               *)
(***************************************************************************)
Threads == 1..MaxThreads

\* The keys (data_shards, parity_shards) of the calls: one that
\* ReedSolomon::new accepts and one it refuses.
CacheKeys ==
    { <<DATA_SHREDS_PER_FEC_BLOCK, DATA_SHREDS_PER_FEC_BLOCK>>,
      <<0, DATA_SHREDS_PER_FEC_BLOCK>> }

\* Arc::<OnceLock<Result<_, _>>>::default() for a key; runs counts the
\* calls of the closure of get_or_init on the cell.
OnceLock_default(key) ==
    [key |-> key, state |-> "uninit", value |-> << >>, runs |-> 0, evicted |-> FALSE]

once_is_initialized_if_ok(cell) == cell.state = "done" /\ cell.value.ok

\* OnceLock::get_or_init finds the cell initialized.
once_is_initialized(cell) == cell.state = "done"

\* Arc::new at a fresh address.
Arc_new(address, x) == [arc |-> address, inner |-> x]

\* ReedSolomon::new(data_shards, parity_shards).map(Arc::new), run for the
\* n-th time on the cell at address entry.
construct(key, entry, n) ==
    LET made == ReedSolomon_new(key[1], key[2])
    IN  IF made.ok THEN Ok(Arc_new(<<entry, n>>, made.value)) ELSE made

recheck_skipped(entries, key) == [value |-> None, entries |-> entries]

\* cache.get(&key).cloned() under the exclusive lock
recheck_under_write_lock(entries, key) == LruCache_get(entries, key)

InitCache ==
    /\ pc = "cache"
    /\ args = << >>
    /\ shredder = << >>
    /\ data_shreds = << >>
    /\ coding_shreds = << >>
    /\ shreds = << >>
    /\ ret = << >>
    /\ cache = << >>
    /\ lock = [readers |-> {}, writer |-> None]
    /\ cells = << >>
    /\ threads = [t \in Threads |->
                    [pc |-> "idle", calls |-> 0, key |-> << >>, entry |-> None, ret |-> << >>]]
    /\ observed = {}
    /\ PoolIdle

shred_vars == <<pc, args, shredder, data_shreds, coding_shreds, shreds, ret, pool>>

\* A thread calls get(data_shards, parity_shards): let key = (..);
Call(t) ==
    /\ threads[t].pc = "idle"
    /\ threads[t].calls < MaxCalls
    /\ \E key \in CacheKeys :
          threads' = [threads EXCEPT ![t] =
                         [pc |-> "read_lock", calls |-> @.calls + 1, key |-> key,
                          entry |-> None, ret |-> << >>]]
    /\ UNCHANGED <<cache, lock, cells, observed>>
    /\ UNCHANGED shred_vars

\* self.0.read().unwrap(): the shared lock is granted while no writer holds
\* the lock.
ReadLock(t) ==
    /\ threads[t].pc = "read_lock"
    /\ ~lock.writer.some
    /\ lock' = [lock EXCEPT !.readers = @ \cup {t}]
    /\ threads' = [threads EXCEPT ![t].pc = "read"]
    /\ UNCHANGED <<cache, cells, observed>>
    /\ UNCHANGED shred_vars

\* The lookup of line 542 with its guard alive into unwrap_or_else.
ReadGet_keeping_guard(t) ==
    /\ threads[t].pc = "read"
    /\ LET got == LruCache_get(cache, threads[t].key)
       IN  /\ cache' = got.entries
           /\ threads' = [threads EXCEPT
                            ![t].entry = got.value,
                            ![t].pc = IF got.value.some THEN "once" ELSE "write_lock"]
    /\ lock' = lock
    /\ UNCHANGED <<cells, observed>>
    /\ UNCHANGED shred_vars

\* .get(&key).cloned(); the guard is dropped at the end of the statement.
\* On a miss unwrap_or_else goes for the exclusive lock.
ReadGet(t) ==
    /\ threads[t].pc = "read"
    /\ LET got == LruCache_get(cache, threads[t].key)
       IN  /\ cache' = got.entries
           /\ threads' = [threads EXCEPT
                            ![t].entry = got.value,
                            ![t].pc = IF got.value.some THEN "once" ELSE "write_lock"]
    /\ lock' = [lock EXCEPT !.readers = @ \ {t}]
    /\ UNCHANGED <<cells, observed>>
    /\ UNCHANGED shred_vars

\* self.0.write().unwrap(): the exclusive lock is granted while nobody
\* holds the lock.
WriteLock(t) ==
    /\ threads[t].pc = "write_lock"
    /\ lock.readers = {}
    /\ ~lock.writer.some
    /\ lock' = [lock EXCEPT !.writer = Some(t)]
    /\ threads' = [threads EXCEPT ![t].pc = "write"]
    /\ UNCHANGED <<cache, cells, observed>>
    /\ UNCHANGED shred_vars

\* The closure of line 544 with its guard alive until get returns.
WritePut_keeping_guard(t) ==
    /\ threads[t].pc = "write"
    /\ LET key   == threads[t].key
           got   == recheck_under_write_lock(cache, key)
           entry == Len(cells) + 1
           put   == LruCache_put(got.entries, key, entry, CAPACITY)
       IN  IF got.value.some
           THEN /\ cache' = got.entries
                /\ cells' = cells
                /\ threads' = [threads EXCEPT ![t].entry = got.value, ![t].pc = "once"]
           ELSE /\ cache' = put.entries
                /\ cells' = [c \in 1..entry |->
                               IF c = entry THEN OnceLock_default(key)
                               ELSE IF c \in put.evicted
                               THEN [cells[c] EXCEPT !.evicted = TRUE]
                               ELSE cells[c]]
                /\ threads' = [threads EXCEPT ![t].entry = Some(entry), ![t].pc = "once"]
    /\ lock' = lock
    /\ UNCHANGED observed
    /\ UNCHANGED shred_vars

\* cache.get(&key).cloned().unwrap_or_else(|| { put a fresh cell }); the
\* guard is dropped at the end of the closure.
WritePut(t) ==
    /\ threads[t].pc = "write"
    /\ LET key   == threads[t].key
           got   == recheck_under_write_lock(cache, key)
           entry == Len(cells) + 1
           put   == LruCache_put(got.entries, key, entry, CAPACITY)
       IN  IF got.value.some
           THEN /\ cache' = got.entries
                /\ cells' = cells
                /\ threads' = [threads EXCEPT ![t].entry = got.value, ![t].pc = "once"]
           ELSE /\ cache' = put.entries
                /\ cells' = [c \in 1..entry |->
                               IF c = entry THEN OnceLock_default(key)
                               ELSE IF c \in put.evicted
                               THEN [cells[c] EXCEPT !.evicted = TRUE]
                               ELSE cells[c]]
                /\ threads' = [threads EXCEPT ![t].entry = Some(entry), ![t].pc = "once"]
    /\ lock' = [lock EXCEPT !.writer = None]
    /\ UNCHANGED observed
    /\ UNCHANGED shred_vars

\* entry.get_or_init(..) on a cell nobody has initialized or is
\* initializing: this thread runs the closure.
OnceBegin(t) ==
    /\ threads[t].pc = "once"
    /\ LET entry == threads[t].entry.value
       IN  /\ ~once_is_initialized(cells[entry])
           /\ cells[entry].state # "running"
           /\ cells' = [cells EXCEPT ![entry].state = "running"]
    /\ threads' = [threads EXCEPT ![t].pc = "init"]
    /\ UNCHANGED <<cache, lock, observed>>
    /\ UNCHANGED shred_vars

\* The closure: ReedSolomon::new(data_shards, parity_shards).map(Arc::new);
\* its value initializes the cell.
OnceInit(t) ==
    /\ threads[t].pc = "init"
    /\ LET entry == threads[t].entry.value
       IN  cells' = [cells EXCEPT
                        ![entry].state = "done",
                        ![entry].runs  = @ + 1,
                        ![entry].value = construct(threads[t].key, entry, cells[entry].runs + 1)]
    /\ threads' = [threads EXCEPT ![t].pc = "once"]
    /\ UNCHANGED <<cache, lock, observed>>
    /\ UNCHANGED shred_vars

\* entry.get_or_init(..).clone() on an initialized cell: get returns the
\* cell's value.  A thread that finds the cell being initialized waits.
OnceGet(t) ==
    /\ threads[t].pc = "once"
    /\ LET entry == threads[t].entry.value
       IN  /\ once_is_initialized(cells[entry])
           /\ threads' = [threads EXCEPT ![t].ret = cells[entry].value, ![t].pc = "idle"]
           /\ observed' = observed \cup
                  {[key |-> threads[t].key, entry |-> entry, value |-> cells[entry].value]}
    /\ UNCHANGED <<cache, lock, cells>>
    /\ UNCHANGED shred_vars

NextCache ==
    \E t \in Threads :
        \/ Call(t)
        \/ ReadLock(t)
        \/ ReadGet(t)
        \/ WriteLock(t)
        \/ WritePut(t)
        \/ OnceBegin(t)
        \/ OnceInit(t)
        \/ OnceGet(t)

SpecCache == InitCache /\ [][NextCache]_vars

\* The steps of one call of get by thread t, from the request of the shared
\* lock to the return.
GetStep(t) ==
    \/ ReadLock(t)
    \/ ReadGet(t)
    \/ WriteLock(t)
    \/ WritePut(t)
    \/ OnceBegin(t)
    \/ OnceInit(t)
    \/ OnceGet(t)

\* SpecCacheFair: SpecCache under a fair scheduler: a thread inside get
\* whose next step stays possible takes it, the constructor (OnceInit)
\* included.  Nothing obliges a thread to call get.
SpecCacheFair == InitCache /\ [][NextCache]_vars /\ \A t \in Threads : WF_vars(GetStep(t))

(***************************************************************************)
(* SpecCapacity: threads calling ReedSolomonCache::get on a full cache.    *)
(* The cache starts as 128 calls of get, one after the other and for 128   *)
(* keys, leave it, the callers of the first two still holding what they    *)
(* got; the threads then ask for the least recently used key and for keys  *)
(* the cache does not hold.                                                *)
(***************************************************************************)
\* The number of the earlier calls: as many as the cache is to hold.
EarlierCalls == 4 * DATA_SHREDS_PER_FEC_BLOCK

\* The key of the d-th of the earlier calls.
EarlierKey(d) == <<d, d>>

\* The keys of the calls on the full cache: the one used least recently
\* and two that have no entry.
FullKeys == { EarlierKey(1), <<1, 2>>, <<2, 1>> }

InitCapacity ==
    /\ pc = "cache"
    /\ args = << >>
    /\ shredder = << >>
    /\ data_shreds = << >>
    /\ coding_shreds = << >>
    /\ shreds = << >>
    /\ ret = << >>
    /\ cache = collect([d \in 1..EarlierCalls |-> [key |-> EarlierKey(d), value |-> d]])
    /\ lock = [readers |-> {}, writer |-> None]
    /\ cells = collect([d \in 1..EarlierCalls |->
                  [OnceLock_default(EarlierKey(d)) EXCEPT
                      !.state = "done", !.runs = 1, !.value = construct(EarlierKey(d), d, 1)]])
    /\ threads = [t \in Threads |->
                    [pc |-> "idle", calls |-> 0, key |-> << >>, entry |-> None, ret |-> << >>]]
    /\ observed = { [key |-> EarlierKey(d), entry |-> d, value |-> construct(EarlierKey(d), d, 1)] : d \in 1..2 }
    /\ PoolIdle

\* The number of calls the threads 1..t have made.
RECURSIVE CallsMade(_)
CallsMade(t) == IF t = 0 THEN 0 ELSE threads[t].calls + CallsMade(t - 1)

\* A thread calls get(data_shards, parity_shards) on the full cache.
CallFull(t) ==
    /\ threads[t].pc = "idle"
    /\ CallsMade(MaxThreads) < MaxFullCalls
    /\ \E key \in FullKeys :
          threads' = [threads EXCEPT ![t] =
                         [pc |-> "read_lock", calls |-> @.calls + 1, key |-> key,
                          entry |-> None, ret |-> << >>]]
    /\ UNCHANGED <<cache, lock, cells, observed>>
    /\ UNCHANGED shred_vars

NextCapacity ==
    \E t \in Threads :
        \/ CallFull(t)
        \/ ReadLock(t)
        \/ ReadGet(t)
        \/ WriteLock(t)
        \/ WritePut(t)
        \/ OnceBegin(t)
        \/ OnceInit(t)
        \/ OnceGet(t)

SpecCapacity == InitCapacity /\ [][NextCapacity]_vars

(***************************************************************************)
(* SpecNew: Shredder::new applied to slots on both sides of its bounds.    *)
(*   new --New--> constructed                                              *)
(***************************************************************************)
\* Slots near 0 and near u16::MAX, so that slot - parent_slot takes the
\* values 0, u16::MAX - 1, u16::MAX and u16::MAX + 1 among others.
NewSlots == (0..MaxNewSlot) \cup ((U16_MAX - 1)..(U16_MAX + MaxNewSlot))

InitNew ==
    /\ pc = "new"
    /\ args \in [slot : NewSlots, parent_slot : NewSlots, reference_tick : {0, 63, 255}, version : {0, U16_MAX}]
    /\ Idle

New ==
    /\ pc = "new"
    /\ ret' = Shredder_new(args.slot, args.parent_slot, args.reference_tick, args.version)
    /\ pc' = "constructed"
    /\ UNCHANGED <<args, shredder, data_shreds, coding_shreds, shreds>>
    /\ UNCHANGED cache_vars
    /\ UNCHANGED pool

NextNew == New

SpecNew == InitNew /\ [][NextNew]_vars

(***************************************************************************)
(* SpecDeshred: deshred applied to any short sequence of the data shreds   *)
(* of one or two successive calls of the data shredder, with gaps,         *)
(* repeats, reorderings and shreds after the completion marker.            *)
(*   start --EntriesToDataShredsTwice--> shredded --DeshredAny-->          *)
(*   deshredded                                                            *)
(***************************************************************************)
\* The numbers of data shreds of the first and of the second call; no
\* second call when the second number is 0.
DeshredChunkCounts ==
    { c \in (1..MaxDeshredChunks) \X (0..2) : c[1] + c[2] <= MaxDeshredChunks }

InitDeshred ==
    /\ pc = "start"
    /\ shredder = TestContext
    /\ args \in [ chunks : DeshredChunkCounts, is_last_in_slot : BOOLEAN ]
    /\ data_shreds = << >>
    /\ coding_shreds = << >>
    /\ shreds = << >>
    /\ ret = << >>
    /\ CacheIdle
    /\ PoolIdle

\* Two calls of entries_to_data_shreds, the second one going on at the
\* shred index the first one stopped at; only the last call of a slot
\* has is_last_in_slot.
EntriesToDataShredsTwice ==
    /\ pc = "start"
    /\ LET one == args.chunks[1]
           two == args.chunks[2]
           first == entries_to_data_shreds(shredder, Keypair, EntriesOfChunks(one, 0), two = 0 /\ args.is_last_in_slot, 0)
           second == IF two = 0
                     THEN << >>
                     ELSE entries_to_data_shreds(shredder, Keypair, EntriesOfChunks(two, 1), args.is_last_in_slot, one)
       IN  data_shreds' = first \o second
    /\ pc' = "shredded"
    /\ UNCHANGED <<args, shredder, coding_shreds, shreds, ret>>
    /\ UNCHANGED cache_vars
    /\ UNCHANGED pool

\* The sequences of at most MaxDeshredLen places of the data shreds, and
\* the places in order.
DeshredPicks(n) ==
    UNION { [1..len -> 1..n] : len \in 0..Min(MaxDeshredLen, n) } \cup { [i \in 1..n |-> i] }

\* Shredder::deshred on the payloads of the picked shreds
DeshredAny ==
    /\ pc = "shredded"
    /\ \E picks \in DeshredPicks(Len(data_shreds)) :
          /\ shreds' = collect([i \in 1..Len(picks) |-> data_shreds[picks[i]]])
          /\ ret' = deshred(shreds')
    /\ pc' = "deshredded"
    /\ UNCHANGED <<args, shredder, data_shreds, coding_shreds>>
    /\ UNCHANGED cache_vars
    /\ UNCHANGED pool

NextDeshred == EntriesToDataShredsTwice \/ DeshredAny

SpecDeshred == InitDeshred /\ [][NextDeshred]_vars

(***************************************************************************)
(* SpecStray: try_recovery on the survivors of a FEC set and one data      *)
(* shred of the same slot and FEC set index whose index lies outside the   *)
(* set.                                                                    *)
(*   start --EntriesToShreds--> made --TryRecoveryStray--> recovered       *)
(***************************************************************************)
\* Shred::new_from_data for the slot and the FEC set index of the set, at
\* the first indices past the set and at the index before it.
StrayShreds ==
    LET first        == data_shreds[1]
        fec_set_size == Len(data_shreds) + Len(coding_shreds)
        indexes      == { first.fec_set_index + fec_set_size, first.fec_set_index + fec_set_size + 1 }
                          \cup { index \in {first.fec_set_index - 1} : index >= 0 }
    IN  { Shred_sign(Shred_new_from_data(first.slot, index, first.parent_offset, << >>, ShredFlagsEmpty, 0, first.version, first.fec_set_index), Keypair) : index \in indexes }

\* Shredder::try_recovery(shreds, &reed_solomon_cache) where shreds holds
\* survivors of the set and a stray shred, first or last.
TryRecoveryStray ==
    /\ pc = "made"
    /\ \E data_kept \in SUBSET (1..Len(data_shreds)),
          code_kept \in ParitySurvivors(Len(coding_shreds)),
          stray \in StrayShreds,
          stray_first \in BOOLEAN :
          LET data == Keep(data_shreds, data_kept)
              code == Keep(coding_shreds, code_kept)
          IN  /\ shreds' = IF stray_first THEN <<stray>> \o data \o code ELSE data \o code \o <<stray>>
              /\ ret' = try_recovery(shreds')
    /\ pc' = "recovered"
    /\ UNCHANGED <<args, shredder, data_shreds, coding_shreds>>
    /\ UNCHANGED cache_vars
    /\ UNCHANGED pool

NextStray == EntriesToShreds \/ TryRecoveryStray

SpecStray == InitRecovery /\ [][NextStray]_vars

(***************************************************************************)
(* SpecRepeat: try_recovery on the survivors of a FEC set, one of which    *)
(* may be in the input twice.                                              *)
(*   start --EntriesToShreds--> made --TryRecoveryRepeat--> recovered      *)
(***************************************************************************)
\* Shredder::try_recovery(shreds, &reed_solomon_cache) where shreds holds
\* the survivors, data shreds first, and after them a second copy of the
\* first or of the last survivor, or no copy.
TryRecoveryRepeat ==
    /\ pc = "made"
    /\ \E data_kept \in SUBSET (1..Len(data_shreds)),
          code_kept \in ParitySurvivors(Len(coding_shreds)),
          repeat \in {"none", "first", "last"} :
          LET survivors == Keep(data_shreds, data_kept) \o Keep(coding_shreds, code_kept)
          IN  /\ repeat # "none" => survivors # << >>
              /\ shreds' = CASE repeat = "none"  -> survivors
                              [] repeat = "first" -> survivors \o <<survivors[1]>>
                              [] repeat = "last"  -> survivors \o <<survivors[Len(survivors)]>>
              /\ ret' = try_recovery(shreds')
    /\ pc' = "recovered"
    /\ UNCHANGED <<args, shredder, data_shreds, coding_shreds>>
    /\ UNCHANGED cache_vars
    /\ UNCHANGED pool

NextRepeat == EntriesToShreds \/ TryRecoveryRepeat

SpecRepeat == InitRecovery /\ [][NextRepeat]_vars

(***************************************************************************)
(* SpecScenario: tests::run_test_recovery_and_reassembly.  A FEC set of    *)
(* up to five data shreds made with next_shred_index = 0 and               *)
(* next_code_index = 0; the shreds of the combined sequence, data shreds   *)
(* and then code shreds, are kept or dropped by their place modulo a step. *)
(*   start --EntriesToShreds--> made --TryRecoveryEveryNth--> recovered    *)
(***************************************************************************)
InitScenario ==
    /\ pc = "start"
    /\ shredder = TestContext
    /\ args \in [ entries          : { EntriesOfChunks(k, seed) :
                                         k \in 1..TestNumDataShreds,
                                         seed \in 0..MaxSeed },
                  is_last_in_slot  : BOOLEAN,
                  next_shred_index : {0},
                  next_code_index  : {0} ]
    /\ data_shreds = << >>
    /\ coding_shreds = << >>
    /\ shreds = << >>
    /\ ret = << >>
    /\ CacheIdle
    /\ PoolIdle

\* all_shreds.iter().enumerate().filter_map(|(i, b)| ..): the shreds whose
\* place i, counted from 0, has i % step = residue, or the other ones.
EveryNth(all_shreds, step, residue, kept) ==
    Keep(all_shreds, { n \in 1..Len(all_shreds) : ((n - 1) % step = residue) = kept })

\* Shredder::try_recovery(shred_info.clone(), &reed_solomon_cache)
TryRecoveryEveryNth ==
    /\ pc = "made"
    /\ \E step \in 2..MaxDropStep, kept \in BOOLEAN :
          \E residue \in 0..(step - 1) :
              /\ shreds' = EveryNth(data_shreds \o coding_shreds, step, residue, kept)
              /\ ret' = try_recovery(shreds')
    /\ pc' = "recovered"
    /\ UNCHANGED <<args, shredder, data_shreds, coding_shreds>>
    /\ UNCHANGED cache_vars
    /\ UNCHANGED pool

NextScenario == EntriesToShreds \/ TryRecoveryEveryNth

SpecScenario == InitScenario /\ [][NextScenario]_vars

(***************************************************************************)
(* SpecEarly: try_recovery on the survivors of a FEC set, whose code       *)
(* shreds are those of the coding shredder or one code shred that          *)
(* declares no parity.                                                     *)
(*   start --EntriesToShreds--> made --TryRecoveryDeclared--> recovered    *)
(***************************************************************************)
\* Shred::new_from_parity_shard for the set of the data shreds, with
\* num_coding_shreds = 0.
CodeShredWithoutParity ==
    LET first == data_shreds[1]
    IN  Shred_sign(Shred_new_from_parity_shard(first.slot, args.next_code_index, << >>, first.fec_set_index, Len(data_shreds), 0, 0, first.version), Keypair)

\* Shredder::try_recovery(shreds, &reed_solomon_cache)
TryRecoveryDeclared ==
    /\ pc = "made"
    /\ \E data_kept \in SUBSET (1..Len(data_shreds)),
          code_kept \in ParitySurvivors(Len(coding_shreds)),
          without_parity \in BOOLEAN,
          data_first \in BOOLEAN :
          LET data == Keep(data_shreds, data_kept)
              code == IF without_parity
                      THEN <<CodeShredWithoutParity>>
                      ELSE Keep(coding_shreds, code_kept)
          IN  /\ without_parity => code_kept = {}
              /\ shreds' = IF data_first THEN data \o code ELSE code \o data
              /\ ret' = try_recovery(shreds')
    /\ pc' = "recovered"
    /\ UNCHANGED <<args, shredder, data_shreds, coding_shreds>>
    /\ UNCHANGED cache_vars
    /\ UNCHANGED pool

NextEarly == EntriesToShreds \/ TryRecoveryDeclared

SpecEarly == InitRecovery /\ [][NextEarly]_vars

(***************************************************************************)
(* Properties.                                                             *)
(***************************************************************************)
\* The number of chunks the serialized entries split into.
NumChunks == DivCeil(Len(args.entries), DataBufferSize)

Shredded == pc \in {"shredded", "deshredded"}

\* The runs of consecutive data shreds of equal fec_set_index.
FecSets == group_by([n \in 1..Len(data_shreds) |-> data_shreds[n].fec_set_index])

\* C1 (round trip): deshred of the data shreds of a payload, in emitted
\* order, succeeds, and the buffer it returns starts with the payload and
\* holds nothing but zero bytes after it.
C1_RoundTrip ==
    pc = "deshredded" =>
        /\ ret.ok
        /\ Len(ret.value) >= Len(args.entries)
        /\ SubSeq(ret.value, 1, Len(args.entries)) = args.entries
        /\ \A i \in (Len(args.entries) + 1)..Len(ret.value) : ret.value[i] = 0

\* A payload of several FEC sets whose last chunk is partial has been
\* shredded and reassembled.
C1_Witness ==
    /\ pc = "deshredded"
    /\ ret.ok
    /\ NumChunks > 2 * DATA_SHREDS_PER_FEC_BLOCK
    /\ Len(args.entries) % DataBufferSize # 0
    /\ \E i \in 1..Len(args.entries) : args.entries[i] # 0

\* The positions of the data shreds of the FEC set that are among the
\* survivors handed to try_recovery, and the positions that were dropped.
SurvivingData == { n \in 1..Len(data_shreds) : \E m \in 1..Len(shreds) : shreds[m] = data_shreds[n] }

DroppedData == (1..Len(data_shreds)) \ SurvivingData

\* C2 (recovery correctness): of a FEC set made by the shredder, at most
\* num_parity data shreds and any code shreds were dropped and at least
\* num_data shreds survive; then try_recovery on the survivors succeeds and
\* returns the dropped data shreds, each equal to the original, each once,
\* and nothing else.
C2_RecoveryCorrectness ==
    ( /\ pc = "recovered"
      /\ Cardinality(DroppedData) <= Len(coding_shreds)
      /\ Len(shreds) >= Len(data_shreds) )
    => /\ ret.ok
       /\ Len(ret.value) = Cardinality(DroppedData)
       /\ \A n \in DroppedData :
             \E k \in 1..Len(ret.value) : ret.value[k] = data_shreds[n]
       /\ \A k \in 1..Len(ret.value) :
             \E n \in DroppedData : ret.value[k] = data_shreds[n]

\* Of a FEC set of three data shreds two were dropped, as many shreds
\* survive as the set has data shreds, and try_recovery has returned two
\* shreds.
C2_Witness ==
    /\ pc = "recovered"
    /\ Len(data_shreds) = 3
    /\ Cardinality(DroppedData) = 2
    /\ Len(shreds) = Len(data_shreds)
    /\ ret.ok
    /\ Len(ret.value) = 2

\* C3 (recovery minimality): no shred try_recovery returns has the index
\* or the position in the FEC set of a data shred of its input; when every
\* data shred of the set is in the input, it returns no shred.
C3_RecoveryMinimality ==
    (pc = "recovered" /\ ret.ok) =>
        /\ \A k \in 1..Len(ret.value) :
              \A m \in 1..Len(shreds) :
                  Shred_is_data(shreds[m]) =>
                      /\ ret.value[k].index # shreds[m].index
                      /\ Shred_erasure_shard_index(ret.value[k])
                            # Shred_erasure_shard_index(shreds[m])
        /\ DroppedData = {} => ret.value = << >>

\* try_recovery has returned a shred from an input that holds data shreds
\* and code shreds.
C3_Witness ==
    /\ pc = "recovered"
    /\ ret.ok
    /\ Len(ret.value) > 0
    /\ \E m \in 1..Len(shreds) : Shred_is_data(shreds[m])
    /\ \E m \in 1..Len(shreds) : Shred_is_code(shreds[m])
    /\ args.next_shred_index > 0

\* C4 (index continuity): a payload of k chunks yields exactly k data
\* shreds, and their indices are next_shred_index, ...,
\* next_shred_index + k - 1, each occurring once.
C4_IndexContinuity ==
    Shredded =>
        /\ Len(data_shreds) = NumChunks
        /\ { data_shreds[n].index : n \in 1..Len(data_shreds) }
             = args.next_shred_index..(args.next_shred_index + NumChunks - 1)
        /\ \A m, n \in 1..Len(data_shreds) :
              data_shreds[m].index = data_shreds[n].index => m = n

\* More than two FEC sets of data shreds were emitted from a non-zero
\* next_shred_index.
C4_Witness ==
    /\ pc = "shredded"
    /\ args.next_shred_index > 0
    /\ Len(data_shreds) > 2 * DATA_SHREDS_PER_FEC_BLOCK

\* C5 (FEC-set contiguity): the data shreds of equal fec_set_index form
\* one run each; the first run's fec_set_index is next_shred_index, every
\* run's fec_set_index is the index of its first data shred, which is the
\* previous run's fec_set_index plus its size; every run has between
\* DATA_SHREDS_PER_FEC_BLOCK and 2 * DATA_SHREDS_PER_FEC_BLOCK - 1 shreds,
\* unless there are fewer than DATA_SHREDS_PER_FEC_BLOCK shreds in all,
\* which then form one run.
C5_FecSetContiguity ==
    Shredded =>
        LET sets == FecSets
            k    == Len(data_shreds)
        IN  /\ \A g, h \in 1..Len(sets) : sets[g].key = sets[h].key => g = h
            /\ sets[1].key = args.next_shred_index
            /\ \A g \in 1..Len(sets) :
                  /\ sets[g].key = data_shreds[sets[g].first].index
                  /\ g > 1 => sets[g].key = sets[g - 1].key + sets[g - 1].size
            /\ IF k < DATA_SHREDS_PER_FEC_BLOCK
               THEN Len(sets) = 1 /\ sets[1].size = k
               ELSE \A g \in 1..Len(sets) :
                       /\ DATA_SHREDS_PER_FEC_BLOCK <= sets[g].size
                       /\ sets[g].size < 2 * DATA_SHREDS_PER_FEC_BLOCK

\* Three FEC sets, the sizes not all DATA_SHREDS_PER_FEC_BLOCK, from a
\* non-zero next_shred_index.
C5_Witness ==
    /\ pc = "shredded"
    /\ args.next_shred_index > 0
    /\ Len(FecSets) >= 3
    /\ \E g \in 1..Len(FecSets) : FecSets[g].size > DATA_SHREDS_PER_FEC_BLOCK

\* The FEC sets of the data shreds handed to the coding shredder.
CodedSets == group_by([n \in 1..Len(shreds) |-> shreds[n].fec_set_index])

\* The number of code shreds owed to a FEC set of the input.
CodeShredsOwed(set) ==
    get_erasure_batch_size(
        set.size, Shred_last_in_slot(shreds[set.first + set.size - 1])) - set.size

RECURSIVE SumOwed(_, _)
SumOwed(sets, g) ==
    IF g > Len(sets) THEN 0 ELSE CodeShredsOwed(sets[g]) + SumOwed(sets, g + 1)

\* C6 (code-shred pairing): the coding shredder returns, for every FEC set
\* of its input with num_data data shreds whose last shred has
\* last-in-slot flag t, exactly get_erasure_batch_size(num_data, t) -
\* num_data code shreds carrying the set's fec_set_index; it returns code
\* shreds only, their number the sum over the sets, also for a truncated
\* prefix of the data shreds of a call.
C6_CodeShredPairing ==
    pc = "coded" =>
        /\ ~ret.panicked
        /\ ret.value.ok
        /\ coding_shreds = ret.value.value
        /\ \A n \in 1..Len(coding_shreds) : Shred_is_code(coding_shreds[n])
        /\ \A g \in 1..Len(CodedSets) :
              Cardinality({ n \in 1..Len(coding_shreds) :
                              coding_shreds[n].fec_set_index = CodedSets[g].key })
                = CodeShredsOwed(CodedSets[g])
        /\ Len(coding_shreds) = SumOwed(CodedSets, 1)

\* Code shreds were made for a truncated prefix of the data shreds of a
\* last-in-slot call, the prefix holding a whole FEC set and a part of the
\* next.
C6_Witness ==
    /\ pc = "coded"
    /\ args.is_last_in_slot
    /\ Len(shreds) < Len(data_shreds)
    /\ Len(CodedSets) = 2
    /\ CodedSets[2].size < DATA_SHREDS_PER_FEC_BLOCK
    /\ Len(coding_shreds) > 0

\* C7 (completion marker): no data shred but the last carries a completion
\* flag; the last carries LAST_SHRED_IN_SLOT exactly if is_last_in_slot
\* was passed, and DATA_COMPLETE_SHRED always, LAST_SHRED_IN_SLOT
\* containing DATA_COMPLETE_SHRED.
C7_CompletionMarker ==
    Shredded =>
        LET k == Len(data_shreds)
        IN  /\ \A n \in 1..(k - 1) :
                  /\ ~FlagsContains(data_shreds[n].flags, DATA_COMPLETE_SHRED)
                  /\ ~FlagsContains(data_shreds[n].flags, LAST_SHRED_IN_SLOT)
            /\ FlagsContains(data_shreds[k].flags, LAST_SHRED_IN_SLOT)
                  <=> args.is_last_in_slot
            /\ FlagsContains(data_shreds[k].flags, DATA_COMPLETE_SHRED)
            /\ FlagsContains(LAST_SHRED_IN_SLOT, DATA_COMPLETE_SHRED)

\* The last of several data shreds of a call with is_last_in_slot, under a
\* reference tick that fills the six tick bits of the flags byte.
C7_Witness ==
    /\ pc = "shredded"
    /\ args.is_last_in_slot
    /\ shredder.reference_tick > SHRED_TICK_REFERENCE_MASK
    /\ Len(data_shreds) > DATA_SHREDS_PER_FEC_BLOCK
    /\ Shred_last_in_slot(data_shreds[Len(data_shreds)])

\* C8 (planner chunk bounds): with n >= min every chunk of
\* get_fec_set_offsets(n, min) has between min and 2 * min - 1 offsets;
\* with n < min the output is n zeros.
C8_PlannerChunkBounds ==
    pc = "planner_done" =>
        LET n      == args.num_shreds
            min    == args.min_chunk_size
            chunks_ == group_by(ret)
        IN  IF n >= min
            THEN \A c \in 1..Len(chunks_) :
                    min <= chunks_[c].size /\ chunks_[c].size < 2 * min
            ELSE ret = [i \in 1..n |-> 0]

\* The planner has split more than 3 * 32 shreds into chunks of at least
\* 32, one of them larger.
C8_Witness ==
    /\ pc = "planner_done"
    /\ args.min_chunk_size = DATA_SHREDS_PER_FEC_BLOCK
    /\ Len(group_by(ret)) >= 3
    /\ \E c \in 1..Len(group_by(ret)) : group_by(ret)[c].size > args.min_chunk_size

RECURSIVE SumSizes(_, _)
SumSizes(runs, c) == IF c > Len(runs) THEN 0 ELSE runs[c].size + SumSizes(runs, c + 1)

\* C9 (planner totality and contiguity): get_fec_set_offsets(n, min)
\* yields n offsets, the chunk sizes adding up to n; the first chunk has
\* offset 0 and each later chunk the previous chunk's offset plus its
\* size, so that the offset at a position is the position (from 0) of the
\* first element of its chunk.
C9_PlannerTotality ==
    pc = "planner_done" =>
        LET n       == args.num_shreds
            chunks_ == group_by(ret)
        IN  /\ Len(ret) = n
            /\ SumSizes(chunks_, 1) = n
            /\ n > 0 => chunks_[1].key = 0
            /\ \A c \in 2..Len(chunks_) :
                  chunks_[c].key = chunks_[c - 1].key + chunks_[c - 1].size
            /\ \A c \in 1..Len(chunks_) :
                  \A i \in chunks_[c].first..(chunks_[c].first + chunks_[c].size - 1) :
                      ret[i] = chunks_[c].first - 1

\* The planner has split a number of shreds that is no multiple of the
\* minimum into several chunks.
C9_Witness ==
    /\ pc = "planner_done"
    /\ args.num_shreds % args.min_chunk_size # 0
    /\ args.min_chunk_size > 1
    /\ Len(group_by(ret)) >= 3

\* The table of the specification: batch sizes for 0..32 data shreds.
NormativeTable ==
    << 0, 18, 20, 22, 23, 25, 27, 28, 30, 32, 33, 35, 36, 38, 39, 41, 42,
       43, 45, 46, 48, 49, 51, 52, 53, 55, 56, 58, 59, 60, 62, 63, 64 >>

\* C10 (batch sizer): get_erasure_batch_size(num_data, is_last) is s when
\* is_last is false and max(s, 2 * DATA_SHREDS_PER_FEC_BLOCK) when it is
\* true, s being entry num_data of the 33-entry table for num_data <= 32
\* and 2 * num_data above.
C10_BatchSizer ==
    pc = "sizer_done" =>
        LET num_data == args.num_data_shreds
            s == IF num_data <= 32 THEN NormativeTable[num_data + 1]
                                   ELSE 2 * num_data
        IN  /\ Len(NormativeTable) = 33
            /\ ret = IF args.is_last_in_slot
                     THEN (IF s >= 2 * DATA_SHREDS_PER_FEC_BLOCK
                           THEN s ELSE 2 * DATA_SHREDS_PER_FEC_BLOCK)
                     ELSE s

\* The sizer has raised the batch of a small last set to the floor.
C10_Witness ==
    /\ pc = "sizer_done"
    /\ args.is_last_in_slot
    /\ args.num_data_shreds = 5
    /\ ret = 2 * DATA_SHREDS_PER_FEC_BLOCK

\* The cells that are the value of an entry of the cache.
Resident == { cache[n].value : n \in 1..Len(cache) }

\* C11 (cache single-flight): under every interleaving of concurrent calls
\* of ReedSolomonCache::get, the cache holds one entry for a key, the
\* calls for one key return the same result handle unless the key's entry
\* was evicted between them, and the constructor has run at most once on
\* every cell, resident or not.
C11_CacheSingleFlight ==
    pc = "cache" =>
        /\ \A m, n \in 1..Len(cache) : cache[m].key = cache[n].key => m = n
        /\ \A c \in 1..Len(cells) : cells[c].runs <= 1
        /\ \A a, b \in observed :
              a.key = b.key =>
                  /\ a.entry = b.entry => a.value = b.value
                  /\ a.entry # b.entry =>
                        cells[a.entry].evicted \/ cells[b.entry].evicted

\* Two threads have called get for one key that the constructor accepts,
\* one cell was put for it, and both calls have returned the handle of the
\* one encoder made.
C11_Witness ==
    /\ pc = "cache"
    /\ \E t, u \in Threads :
          /\ t # u
          /\ threads[t].calls = 1 /\ threads[u].calls = 1
          /\ threads[t].pc = "idle" /\ threads[u].pc = "idle"
          /\ threads[t].key = threads[u].key
          /\ threads[t].ret.ok
          /\ threads[t].ret = threads[u].ret
          /\ Len(cells) = 1
          /\ cells[1].runs = 1

C13_ParentSlotCheck ==
    pc = "constructed" =>
        LET rejected == args.slot < args.parent_slot \/ args.slot - args.parent_slot > 65535
        IN  /\ (~ret.ok) <=> rejected
            /\ (~ret.ok) => ret.err = "InvalidParentSlot"
            /\ ret.ok =>
                  /\ DOMAIN ret.value = {"slot", "parent_slot", "reference_tick", "version"}
                  /\ ret.value.slot = args.slot
                  /\ ret.value.parent_slot = args.parent_slot
                  /\ ret.value.reference_tick = args.reference_tick
                  /\ ret.value.version = args.version
                  /\ ret.value.slot - ret.value.parent_slot \in 0..(2^16 - 1)

\* Shredder::new has accepted the largest parent offset, 65535.
C13_Witness ==
    /\ pc = "constructed"
    /\ ret.ok
    /\ args.slot - args.parent_slot = 65535


\* The shred at place i of the input of deshred carries DATA_COMPLETE_SHRED.
MarkerAt(i) == FlagsContains(layout_get_flags(shreds[i]), DATA_COMPLETE_SHRED)

\* The indices of the shreds at the places 1..i of the input are
\* consecutive.
ConsecutiveUpTo(i) ==
    \A j \in 2..i : layout_get_index(shreds[j]) = layout_get_index(shreds[j - 1]) + 1

\* deshred has seen the completion marker at place i of its input: the
\* shreds before it were folded without an error.
MarkerSeenAt(i) ==
    /\ MarkerAt(i)
    /\ ConsecutiveUpTo(i)
    /\ \A j \in 1..(i - 1) : ~MarkerAt(j)

\* C14: once deshred has seen a shred that carries DATA_COMPLETE_SHRED, the
\* next shred of the input makes it fail with InvalidDeshredSet, whatever
\* the index and the contents of that shred.
C14_NoShredAfterMarker ==
    pc = "deshredded" =>
        \A i \in 1..(Len(shreds) - 1) :
            MarkerSeenAt(i) => ret = Err("InvalidDeshredSet")

\* A shred with the next index follows the completion marker, and deshred
\* has failed with InvalidDeshredSet.
C14_Witness ==
    /\ pc = "deshredded"
    /\ Len(shreds) = 4
    /\ MarkerSeenAt(3)
    /\ layout_get_index(shreds[4]) = layout_get_index(shreds[3]) + 1
    /\ ret = Err("InvalidDeshredSet")

\* C15: deshred fails with TooFewDataShards when, before any completion
\* marker, the index of a shred is not the index of the shred before it
\* plus one (a gap, a repeat or a reordering), and when the input ends, the
\* empty input included, without its last shred carrying
\* DATA_COMPLETE_SHRED; the data shreds 1, 3, 4 of 5 are rejected.
C15_TooFewDataShards ==
    pc = "deshredded" =>
        /\ \A i \in 2..Len(shreds) :
              /\ \A j \in 1..(i - 1) : ~MarkerAt(j)
              /\ layout_get_index(shreds[i]) # layout_get_index(shreds[i - 1]) + 1
              => ret = Err("TooFewDataShards")
        /\ /\ \A j \in 1..(Len(shreds) - 1) : ~MarkerAt(j)
           /\ Len(shreds) = 0 \/ ~MarkerAt(Len(shreds))
           => ret = Err("TooFewDataShards")
        /\ /\ Len(data_shreds) = 5
           /\ shreds = <<data_shreds[2], data_shreds[4], data_shreds[5]>>
           => ret = Err("TooFewDataShards")

\* The data shreds 1, 3, 4 of the 5 of one call have been handed to
\* deshred.
C15_Witness ==
    /\ pc = "deshredded"
    /\ args.chunks = <<5, 0>>
    /\ shreds = <<data_shreds[2], data_shreds[4], data_shreds[5]>>
    /\ ret = Err("TooFewDataShards")


HasCodeShred == \E n \in 1..Len(shreds) : Shred_is_code(shreds[n])

FecSizeRead == find_code_shred(shreds).value.num_data_shreds + find_code_shred(shreds).value.num_coding_shreds

HasIndexOutside ==
    \E n \in 1..Len(shreds) :
        LET index == Shred_erasure_shard_index(shreds[n])
        IN  ~index.ok \/ index.value < 0 \/ index.value >= FecSizeRead

\* C17, as stated: try_recovery fails with InvalidIndex whenever a shred of
\* its input has an erasure shard index outside [0, fec_size).
C17_AsStated ==
    pc = "recovered" /\ HasCodeShred /\ HasIndexOutside => ret = Err("InvalidIndex")

\* C17, amended: try_recovery fails with InvalidIndex whenever a shred of
\* its input has an erasure shard index outside [0, fec_size) and the
\* input holds fewer than fec_size shreds; an input of fec_size shreds or
\* more returns the empty list before any index is looked at.
C17_InvalidIndex ==
    pc = "recovered" /\ HasCodeShred /\ HasIndexOutside =>
        IF Len(shreds) >= FecSizeRead
        THEN ret = Ok(<< >>)
        ELSE ret = Err("InvalidIndex")

\* Fewer than fec_size shreds, enough of them for a reconstruction, and a
\* shred with the index fec_size among them: InvalidIndex.
C17_Witness ==
    /\ pc = "recovered"
    /\ HasCodeShred
    /\ Len(shreds) < FecSizeRead
    /\ Len(shreds) > Len(data_shreds)
    /\ \E n \in 1..Len(shreds) : Shred_erasure_shard_index(shreds[n]) = Ok(FecSizeRead)
    /\ ret = Err("InvalidIndex")


\* The erasure positions of the set that the input of try_recovery holds.
PositionsPresent == { Shred_erasure_shard_index(shreds[n]).value : n \in 1..Len(shreds) }

ScenarioS3 ==
    /\ pc = "recovered"
    /\ Len(data_shreds) = TestNumDataShreds
    /\ ~args.is_last_in_slot
    /\ args.next_code_index = 0

\* C20, as stated: in scenario S3, after every even-indexed shred of the
\* combined sequence (data shreds, then code shreds) is dropped,
\* try_recovery on the remaining shreds returns the data shreds 1 and 3, in
\* that order.
C20_AsStated ==
    ScenarioS3 /\ shreds = EveryNth(data_shreds \o coding_shreds, 2, 0, FALSE)
        => ret = Ok(<<data_shreds[2], data_shreds[4]>>)

\* C20, amended: in scenario S3, after every odd-indexed shred of the
\* combined sequence (data shreds, then code shreds) is dropped, so that
\* the even-indexed ones remain, try_recovery on the remaining shreds
\* returns the data shreds 1 and 3, in that order.
C20_ScenarioS3 ==
    ScenarioS3 /\ shreds = EveryNth(data_shreds \o coding_shreds, 2, 0, TRUE)
        => ret = Ok(<<data_shreds[2], data_shreds[4]>>)

\* Scenario S3 with the even-indexed shreds handed to try_recovery, which
\* has returned two shreds, of indices 1 and 3.
C20_Witness ==
    /\ ScenarioS3
    /\ shreds = EveryNth(data_shreds \o coding_shreds, 2, 0, TRUE)
    /\ ret.ok
    /\ Len(ret.value) = 2
    /\ ret.value[1].index = 1
    /\ ret.value[2].index = 3


\* code_index_base of the FEC set g of the input: next_code_index plus the
\* parity counts of the sets before g.
CodeIndexBase(g) == args.next_code_index + SumOwed(CodedSets, 1) - SumOwed(CodedSets, g)

\* The places in the returned code shreds of the code shred of the set of
\* fec_set_index key at position j.
CodeShredPlaces(key, j) ==
    { n \in 1..Len(coding_shreds) : coding_shreds[n].fec_set_index = key /\ coding_shreds[n].position = j }

\* C21 (code-shred indexing): of every FEC set g of the input the coding
\* shredder returns one code shred for each position j below the set's
\* parity count, with index code_index_base(g) + j and erasure shard index
\* num_data(g) + j, code_index_base being next_code_index plus the parity
\* counts of the sets before g; the indices of the code shreds of a call
\* are next_code_index .. next_code_index + total_parity - 1, each once.
C21_CodeShredIndexing ==
    pc = "coded" /\ ~ret.panicked =>
        /\ \A g \in 1..Len(CodedSets) :
              \A j \in 0..(CodeShredsOwed(CodedSets[g]) - 1) :
                  /\ Cardinality(CodeShredPlaces(CodedSets[g].key, j)) = 1
                  /\ \A n \in CodeShredPlaces(CodedSets[g].key, j) :
                        /\ coding_shreds[n].index = CodeIndexBase(g) + j
                        /\ Shred_erasure_shard_index(coding_shreds[n]) = Ok(CodedSets[g].size + j)
        /\ { coding_shreds[n].index : n \in 1..Len(coding_shreds) }
              = args.next_code_index..(args.next_code_index + SumOwed(CodedSets, 1) - 1)
        /\ \A n, m \in 1..Len(coding_shreds) :
              coding_shreds[n].index = coding_shreds[m].index => n = m

\* Code shreds were made for two FEC sets of different parity counts, and
\* the first code shred of the second set has the index next_code_index
\* plus the parity count of the first set.
C21_Witness ==
    /\ pc = "coded"
    /\ ~ret.panicked
    /\ Len(CodedSets) = 2
    /\ CodeShredsOwed(CodedSets[1]) # CodeShredsOwed(CodedSets[2])
    /\ \E n \in CodeShredPlaces(CodedSets[2].key, 0) :
          coding_shreds[n].index = args.next_code_index + CodeShredsOwed(CodedSets[1])


\* num_parity as the first code shred of the input of try_recovery
\* declares it.
ParityDeclared == find_code_shred(shreds).value.num_coding_shreds

\* C22 (early return): when the input of try_recovery holds a code shred
\* that declares (num_data, num_parity), and num_parity = 0 or the input
\* holds num_data + num_parity shreds or more, try_recovery returns the
\* empty list without an error and asks the encoder cache for nothing.
C22_EarlyReturn ==
    ( /\ pc = "recovered"
      /\ HasCodeShred
      /\ ParityDeclared = 0 \/ Len(shreds) >= FecSizeRead )
    => /\ ret = Ok(<< >>)
       /\ try_recovery_cache_gets(shreds) = << >>

\* A code shred that declares no parity and fewer shreds than the set has
\* data shreds have been handed to try_recovery, which has returned the
\* empty list.
C22_Witness ==
    /\ pc = "recovered"
    /\ HasCodeShred
    /\ ParityDeclared = 0
    /\ Len(shreds) < FecSizeRead
    /\ Len(shreds) > 1
    /\ ret = Ok(<< >>)


\* C23 (parity is never empty): for num_data >= 1 and either value of
\* is_last_in_slot, get_erasure_batch_size(num_data, is_last_in_slot) is
\* above num_data, so that the checked subtraction of
\* generate_coding_shreds succeeds and its num_coding is positive.
C23_ParityNeverEmpty ==
    pc = "sizer_done" /\ args.num_data_shreds >= 1 =>
        /\ ret > args.num_data_shreds
        /\ ret - args.num_data_shreds >= 0
        /\ num_coding_of(args.num_data_shreds, args.is_last_in_slot) > 0

\* The sizer was asked for the first number of data shreds past its
\* table, for a set that is not the last of its slot.
C23_Witness ==
    /\ pc = "sizer_done"
    /\ ~args.is_last_in_slot
    /\ args.num_data_shreds = Len(ERASURE_BATCH_SIZE)
    /\ ret = 2 * args.num_data_shreds

\* C24 (code shreds of a slot): for a FEC set that is not the last of its
\* slot, with num_data in [32, 128), the parity count p =
\* get_erasure_batch_size(num_data, false) - num_data has
\* MAX_DATA_SHREDS_PER_SLOT * p <= MAX_CODE_SHREDS_PER_SLOT * num_data; the
\* two maxima being equal, p <= num_data.
C24_CodeShredsPerSlot ==
    pc = "sizer_done" /\ ~args.is_last_in_slot /\ args.num_data_shreds \in 32..127 =>
        LET num_coding_shreds == ret - args.num_data_shreds
        IN  /\ num_coding_shreds >= 0
            /\ MAX_DATA_SHREDS_PER_SLOT * num_coding_shreds
                  <= MAX_CODE_SHREDS_PER_SLOT * args.num_data_shreds
            /\ MAX_DATA_SHREDS_PER_SLOT = MAX_CODE_SHREDS_PER_SLOT
            /\ num_coding_shreds <= args.num_data_shreds

\* The sizer was asked for the largest set of the range, 127 data shreds,
\* and the set gets as many code shreds.
C24_Witness ==
    /\ pc = "sizer_done"
    /\ ~args.is_last_in_slot
    /\ args.num_data_shreds = 127
    /\ ret - args.num_data_shreds = 127


\* The keys that have an entry in the cache.
CachedKeys == { cache[n].key : n \in 1..Len(cache) }

\* The cache holds at most 4 * DATA_SHREDS_PER_FEC_BLOCK entries, and
\* every handle a call has returned is the result of the constructor for
\* its key, whether or not the cell it came from is still in the cache.
CapacityKept ==
    /\ Len(cache) <= 4 * DATA_SHREDS_PER_FEC_BLOCK
    /\ \A h \in observed :
          /\ h.value = construct(h.key, h.entry, 1)
          /\ cells[h.entry].value = h.value

\* A step that gives a key an entry in the full cache removes the entry
\* used least recently, and no other; no step takes back a handle.
EvictsLeastRecentlyUsed ==
    /\ observed \subseteq observed'
    /\ ( /\ Len(cache) = 4 * DATA_SHREDS_PER_FEC_BLOCK
         /\ { cache'[n].key : n \in 1..Len(cache') } \ CachedKeys # {} )
       => /\ cache' = Append(Tail(cache), cache'[Len(cache')])
          /\ cells'[cache[1].value].evicted
          /\ cells'[cache[1].value].value = cells[cache[1].value].value

LockHolders == lock.readers \cup (IF lock.writer.some THEN {lock.writer.value} ELSE {})

\* C26 (constructor outside the lock): a thread that runs the constructor
\* or is at get_or_init, where it may wait for the initialization by
\* another thread, holds the lock of the cache neither shared nor
\* exclusive; the holders of the lock are at the lookups of lines 542 and
\* 545-550 only, so that while a constructor runs a call for another key
\* waits for the lock only as long as another call's lookup takes.
C26_ConstructorOutsideLock ==
    pc = "cache" =>
        /\ \A t \in Threads :
              threads[t].pc \in {"once", "init"} => t \notin LockHolders
        /\ \A w \in LockHolders : threads[w].pc \in {"read", "write"}
        /\ \A t, u \in Threads :
              ( /\ threads[t].pc = "init"
                /\ threads[u].key # threads[t].key
                /\ threads[u].pc \in {"read_lock", "write_lock"}
                /\ LockHolders = {} )
              => (ENABLED ReadLock(u)) \/ (ENABLED WriteLock(u))

\* While one thread runs the constructor for its key, another thread holds
\* the exclusive lock in a call for another key.
C26_Witness ==
    /\ pc = "cache"
    /\ \E t, u \in Threads :
          /\ threads[t].pc = "init"
          /\ threads[u].pc = "write"
          /\ threads[u].key # threads[t].key
          /\ lock.writer = Some(u)


\* C27 (get is deadlock-free and terminates): under a fair scheduler and
\* with a constructor that terminates, every call of get returns, whatever
\* the other threads call; and a thread that requests the exclusive lock
\* does not hold the shared one.  A thread is outside get when idle, so
\* "inside get leads to outside get" is "again and again outside get".
C27_GetTerminates ==
    /\ [](\A t \in Threads : threads[t].pc = "write_lock" => t \notin lock.readers)
    /\ \A t \in Threads : []<>(threads[t].pc = "idle")

\* Every thread has made all its calls and each has returned, after two
\* threads asked for the same key at the same time, one of them waiting for
\* the cell the other initialized.
C27_Witness ==
    /\ pc = "cache"
    /\ \A t \in Threads : threads[t].pc = "idle" /\ threads[t].calls = MaxCalls
    /\ \E c \in 1..Len(cells) :
          /\ cells[c].runs = 1
          /\ Cardinality({t \in Threads : \E o \in observed : o.entry = c /\ threads[t].ret = o.value /\ threads[t].key = o.key}) >= 2


\* C18 (negative caching): a failure of the constructor for a key is the
\* value of the key's cell; every call of get that returns from that cell
\* returns this error, and the constructor has run once on it, however
\* many calls have returned.
C18_NegativeCaching ==
    pc = "cache" =>
        /\ \A c \in 1..Len(cells) :
              (cells[c].runs > 0 /\ ~ReedSolomon_new(cells[c].key[1], cells[c].key[2]).ok)
                  => /\ cells[c].state = "done"
                     /\ cells[c].value = ReedSolomon_new(cells[c].key[1], cells[c].key[2])
                     /\ cells[c].runs = 1
        /\ \A o \in observed :
              ~ReedSolomon_new(o.key[1], o.key[2]).ok
                  => o.value = ReedSolomon_new(o.key[1], o.key[2])

\* A thread has called get twice for a key the constructor refuses, the
\* second call after the first had returned, and has the error from a
\* cell the constructor ran on once.
C18_Witness ==
    /\ pc = "cache"
    /\ \E t \in Threads :
          /\ threads[t].calls = 2
          /\ threads[t].pc = "idle"
          /\ ~threads[t].ret.ok
          /\ threads[t].ret.err = "TooFewDataShards"
          /\ cells[threads[t].entry.value].runs = 1
          /\ \A u \in Threads : threads[u].key \in {<< >>, threads[t].key}

====
